---- MODULE Spec2Model ----
(***************************************************************************)
(* Session / world engine of the game server                               *)
(* (apps/game-server/src/index.ts): the room table with on-demand exit     *)
(* expansion, the player / NPC directories, the asynchronous move command  *)
(* with its two suspension points (content generator, NPC-profile          *)
(* generator), trade, equipment and combat.                                *)
(*                                                                         *)
(* A handler that contains an await is split at the await: its            *)
(* continuation is an entry of `pending` that a later step resumes, in    *)
(* whatever order the collaborators answer.                                *)
(* Everything between two awaits is one atomic step.                       *)
(***************************************************************************)
EXTENDS Integers, Sequences, FiniteSets, TLC

VARIABLES
    rooms,        \* Map<string, Room>: room id -> [name, exits]
    players,      \* Map<string, PlayerState>: player id -> player record
    connections,  \* Map<string, ConnectionContext>: its key set
    npcs,         \* Map<string, PlayerState>: npc id -> npc record
    detached,     \* player objects deleted from `players` that a suspended
                  \* handler still holds a reference to
    pending,      \* suspended handleCommand continuations: a multiset,
                  \* continuation record -> how many are suspended
    nextPlayer,   \* number of player ids drawn from randomUUID so far
    nextRoom,     \* number of room ids drawn from randomUUID so far
    nextNpc,      \* number of npc ids drawn from randomUUID so far
    genCalls,     \* number of generateRoomsForExit invocations so far
    spawnCalls,   \* number of generateNormieProfile invocations so far
    topups,       \* number of paid top-up requests served so far
    sent,         \* events passed to socket.send by the last step, in order
    last          \* the last step: the handler that ran, its outcome, the
                  \* session, the room it acted in and its argument

vars == <<rooms, players, connections, npcs, detached, pending, nextPlayer,
          nextRoom, nextNpc, genCalls, spawnCalls, topups, last, sent>>

----------------------------------------------------------------------------
(* Bounds of the model *)

MaxGenCalls == 2     \* content-generator invocations over a run
MaxSpawns == 4       \* NPC-profile generator invocations over a run
WorldSpawns == 1     \* of which under the world specification
CombatSpawns == 2    \* of which under the combat specification
MaxTopups == 5       \* paid top-up requests over a run
BrawlSpawns == 2     \* NPC-profile invocations under the brawl specification
ArmsSpawns == 1      \* NPC-profile invocations under the arms specification
ArmsTopups == 1      \* paid top-up requests under the arms specification
AtlasSpawns == 1     \* NPC-profile invocations under the atlas specification
PurseSpawns == 1     \* NPC-profile invocations under the purse specification
PurseTopups == 1     \* paid top-up requests under the purse specification
FaultGenCalls == 1   \* content-generator invocations under the fault specification

----------------------------------------------------------------------------
\* the sessions that may be admitted over a run; the n-th admission draws
\* the id PlayerId(n)
SessionPool == {"p-1", "p-2"}

----------------------------------------------------------------------------
(* Program constants *)

NORMIE_ATTACK_RATING == 10
NORMIE_MIN_HEALTH == 15
NORMIE_MAX_HEALTH == 100
MAX_NORMIES_PER_ROOM == 3
FIST_ATTACK_RATING == 10
PLAYER_MAX_HEALTH == 100
TOPUP_CREDITS == 100
InventorySlots == 20

\* JavaScript null (targetRoomId, armor, an empty item slot)
Null == "null"

PlayerId(n) == "p-" \o ToString(n)
\* playerId.slice(2, 6): the first four characters after "p-"
IdFragment(pid) ==
    LET ns == {n \in 1..Cardinality(SessionPool) : pid = PlayerId(n)}
    IN IF ns = {} THEN pid ELSE ToString(CHOOSE n \in ns : TRUE)
RoomId(n) == "room-" \o ToString(n)
NpcId(n) == "npc-" \o ToString(n)

----------------------------------------------------------------------------
(* Construction *)

\* mutant of createEmptyInventory: one slot more than the capacity
createEmptyInventory_ExtraSlot ==
    [weapon |-> "fist", armor |-> Null, items |-> [i \in 1..(InventorySlots + 1) |-> Null]]

createEmptyInventory ==
    [weapon |-> "fist", armor |-> Null, items |-> [i \in 1..InventorySlots |-> Null]]

createInitialWorld ==
    [id \in {"hub-1", "vault-1"} |->
        IF id = "hub-1"
        THEN [name |-> "Central Nexus",
              exits |-> << [direction |-> "north", targetRoomId |-> Null],
                           [direction |-> "east", targetRoomId |-> Null],
                           [direction |-> "up", targetRoomId |-> "vault-1"] >>]
        ELSE [name |-> "The Vault",
              exits |-> << [direction |-> "down", targetRoomId |-> "hub-1"] >>]]

hubRoom == "hub-1"

\* JavaScript undefined (an optional command field that was not sent)
Undefined == "undefined"

\* String.prototype.toLowerCase over the strings of the model: the stock
\* names, the NPC names and the spellings the clients send; every other
\* string of the model is already lower case
Lower(s) ==
    CASE s \in {"Broken Ledger", "BROKEN LEDGER"} -> "broken ledger"
      [] s = "Coffee" -> "coffee"
      [] s \in {"Monster", "MONSTER"} -> "monster"
      [] s = "Mate" -> "mate"
      [] s \in {"Chet", "CHET"} -> "chet"
      [] s = "Bob" -> "bob"
      [] s = "Neo" -> "neo"
      [] s = "Fist" -> "fist"
      [] s \in {"Wanderer-" \o IdFragment(pid) : pid \in SessionPool} ->
            "wanderer-" \o
                IdFragment(CHOOSE pid \in SessionPool : s = "Wanderer-" \o IdFragment(pid))
      [] OTHER -> s

\* String.prototype.trim: the white space at both ends is removed
IsSpace(c) == c \in {" ", "\t", "\n", "\r"}

RECURSIVE TrimStart(_)
TrimStart(s) ==
    IF Len(s) > 0 /\ IsSpace(SubSeq(s, 1, 1)) THEN TrimStart(SubSeq(s, 2, Len(s))) ELSE s

RECURSIVE TrimEnd(_)
TrimEnd(s) ==
    IF Len(s) > 0 /\ IsSpace(SubSeq(s, Len(s), Len(s)))
    THEN TrimEnd(SubSeq(s, 1, Len(s) - 1)) ELSE s

Trim(s) == TrimEnd(TrimStart(s))

\* the vendor's wares (lines 53-87); NoValue stands for an absent field
NoValue == -1
BROKEN_LEDGER == [name |-> "Broken Ledger", type |-> "weapon", quantity |-> "unlimited",
                  attackRating |-> 20, cost |-> 20, healAmount |-> NoValue]
COFFEE == [name |-> "Coffee", type |-> "item", quantity |-> "unlimited",
           attackRating |-> NoValue, cost |-> 2, healAmount |-> 10]
MONSTER == [name |-> "Monster", type |-> "item", quantity |-> "unlimited",
            attackRating |-> NoValue, cost |-> 1, healAmount |-> 4]
MATE == [name |-> "Mate", type |-> "item", quantity |-> "unlimited",
         attackRating |-> NoValue, cost |-> 2, healAmount |-> 10]

\* ITEM_DEFINITIONS (lines 95-112): lower-cased name -> definition
ITEM_DEFINITIONS ==
    [k \in {Lower(BROKEN_LEDGER.name), Lower(COFFEE.name), Lower(MONSTER.name), Lower(MATE.name)} |->
        LET it == CHOOSE x \in {BROKEN_LEDGER, COFFEE, MONSTER, MATE} : Lower(x.name) = k
        IN [type |-> it.type, attackRating |-> it.attackRating, healAmount |-> it.healAmount]]

spawnVendorChet ==
    [id \in {"npc-vendor-chet"} |->
        [name |-> "Chet", npcClass |-> "vendor", health |-> 100,
         attackRating |-> BROKEN_LEDGER.attackRating, creds |-> 0, roomId |-> hubRoom,
         vendorStock |-> << BROKEN_LEDGER, COFFEE, MONSTER, MATE >>]]

NewPlayer(pid) ==
    [name |-> "Wanderer-" \o IdFragment(pid), health |-> 100, attackRating |-> 10,
     creds |-> 0, inventory |-> createEmptyInventory, roomId |-> hubRoom]

\* what `last` records of a step
Step(step, res, pid, room, arg) ==
    [step |-> step, res |-> res, pid |-> pid, room |-> room, arg |-> arg]

Init ==
    /\ rooms = createInitialWorld
    /\ players = << >>
    /\ connections = {}
    /\ npcs = spawnVendorChet
    /\ detached = << >>
    /\ pending = << >>
    /\ nextPlayer = 0
    /\ nextRoom = 0
    /\ nextNpc = 0
    /\ genCalls = 0
    /\ spawnCalls = 0
    /\ topups = 0
    /\ sent = << >>
    /\ last = Step("init", "ok", Null, Null, Null)

----------------------------------------------------------------------------
(* Events and the send primitives *)

Ev(to, type, msg, arg) == [to |-> to, type |-> type, msg |-> msg, arg |-> arg]

\* sendEvent: nothing is sent when the session has no connection entry
sendEvent(conns, pid, type, msg, arg) ==
    IF pid \in conns THEN << Ev(pid, type, msg, arg) >> ELSE << >>

\* Map iteration is insertion order; player ids are handed out in order
RECURSIVE BroadcastUpTo(_, _, _, _, _, _, _)
BroadcastUpTo(n, pl, conns, roomId, type, msg, arg) ==
    IF n = 0 THEN << >>
    ELSE BroadcastUpTo(n - 1, pl, conns, roomId, type, msg, arg) \o
         ( IF PlayerId(n) \in DOMAIN pl /\ pl[PlayerId(n)].roomId = roomId
           THEN sendEvent(conns, PlayerId(n), type, msg, arg)
           ELSE << >> )

broadcastToRoom(pl, conns, roomId, type, msg, arg) ==
    BroadcastUpTo(nextPlayer + 1, pl, conns, roomId, type, msg, arg)

\* number of NPCs (of any class) bound to the room
CountNpcsInRoom(ns, roomId) == Cardinality({id \in DOMAIN ns : ns[id].roomId = roomId})

listNpcsInRoom(ns, roomId) == {id \in DOMAIN ns : ns[id].roomId = roomId}

\* the players of the room other than the excluded one, in insertion order
RECURSIVE OtherPlayersUpTo(_, _, _, _)
OtherPlayersUpTo(n, pl, roomId, excludePlayerId) ==
    IF n = 0 THEN << >>
    ELSE OtherPlayersUpTo(n - 1, pl, roomId, excludePlayerId) \o
         ( IF /\ PlayerId(n) \in DOMAIN pl
              /\ pl[PlayerId(n)].roomId = roomId
              /\ PlayerId(n) # excludePlayerId
           THEN << PlayerId(n) >> ELSE << >> )

\* the spawned NPCs of the room, in insertion order
RECURSIVE SpawnedUpTo(_, _, _)
SpawnedUpTo(n, ns, roomId) ==
    IF n = 0 THEN << >>
    ELSE SpawnedUpTo(n - 1, ns, roomId) \o
         ( IF NpcId(n) \in DOMAIN ns /\ ns[NpcId(n)].roomId = roomId
           THEN << NpcId(n) >> ELSE << >> )

\* listOtherActorsInRoom: the other players of the room, then its NPCs (the
\* vendor was inserted first); an actor is listed by its id
listOtherActorsInRoom(pl, ns, roomId, excludePlayerId) ==
    OtherPlayersUpTo(Cardinality(SessionPool), pl, roomId, excludePlayerId) \o
    ( IF "npc-vendor-chet" \in DOMAIN ns /\ ns["npc-vendor-chet"].roomId = roomId
      THEN << "npc-vendor-chet" >> ELSE << >> ) \o
    SpawnedUpTo(MaxSpawns + 1, ns, roomId)

\* the roomDescription event: the room and the other actors in it
RoomDescription(pl, ns, roomId, playerId) ==
    [room |-> roomId, otherPlayers |-> listOtherActorsInRoom(pl, ns, roomId, playerId)]

----------------------------------------------------------------------------
(* Helpers over sequences *)

\* the multiset of suspended continuations: suspend one, resume one
Suspend(pend, m) ==
    IF m \in DOMAIN pend THEN [pend EXCEPT ![m] = @ + 1] ELSE (m :> 1) @@ pend

Resume(pend, m) ==
    IF pend[m] > 1 THEN [pend EXCEPT ![m] = @ - 1]
    ELSE [x \in DOMAIN pend \ {m} |-> pend[x]]

\* Array.prototype.find on room.exits: index of the first exit with the
\* direction, 0 for undefined
FindExit(exits, direction) ==
    IF \E i \in 1..Len(exits) : exits[i].direction = direction
    THEN CHOOSE i \in 1..Len(exits) :
            /\ exits[i].direction = direction
            /\ \A j \in 1..(i - 1) : exits[j].direction # direction
    ELSE 0

\* the player object a handler holds: still in the table, or deleted from it
Obj(pid) == IF pid \in DOMAIN players THEN players[pid] ELSE detached[pid]

\* objects no suspended handler references any more are dropped
Held(det, pend) ==
    [pid \in {q \in DOMAIN det : \E m \in DOMAIN pend : m.pid = q} |-> det[pid]]

----------------------------------------------------------------------------
(* Connection lifecycle *)

\* mutant of Connect: the arrival notice goes out before the welcome
Connect_NoticeFirst ==
    /\ nextPlayer < Cardinality(SessionPool)
    /\ LET pid == PlayerId(nextPlayer + 1)
           pl == (pid :> NewPlayer(pid)) @@ players
           conns == connections \cup {pid}
       IN /\ players' = pl
          /\ connections' = conns
          /\ nextPlayer' = nextPlayer + 1
          /\ sent' = broadcastToRoom(pl, conns, hubRoom, "system", "fadesIn", pid) \o
                     sendEvent(conns, pid, "welcome", "welcome",
                               [player |-> pl[pid], room |-> rooms[hubRoom]])
          /\ last' = Step("Connect", "ok", pid, hubRoom, Null)
    /\ UNCHANGED <<rooms, npcs, detached, pending, nextRoom, nextNpc, genCalls, spawnCalls, topups>>

\* wss.on("connection"): admit a session
Connect ==
    /\ nextPlayer < Cardinality(SessionPool)
    /\ LET pid == PlayerId(nextPlayer + 1)
           pl == (pid :> NewPlayer(pid)) @@ players
           conns == connections \cup {pid}
       IN /\ players' = pl
          /\ connections' = conns
          /\ nextPlayer' = nextPlayer + 1
          /\ sent' = sendEvent(conns, pid, "welcome", "welcome",
                               [player |-> pl[pid], room |-> rooms[hubRoom]]) \o
                     broadcastToRoom(pl, conns, hubRoom, "system", "fadesIn", pid)
          /\ last' = Step("Connect", "ok", pid, hubRoom, Null)
    /\ UNCHANGED <<rooms, npcs, detached, pending, nextRoom, nextNpc, genCalls, spawnCalls, topups>>

\* mutant of Close: the connection entry is left behind
Close_KeepsConnection(pid) ==
    /\ pid \in {PlayerId(n) : n \in 1..nextPlayer}
    /\ IF pid \in DOMAIN players
       THEN LET p == players[pid]
                pl == [q \in DOMAIN players \ {pid} |-> players[q]]
            IN /\ players' = pl
               /\ connections' = connections
               /\ detached' = Held((pid :> p) @@ detached, pending)
               /\ sent' = broadcastToRoom(pl, connections, p.roomId, "system", "dissolves", pid)
               /\ last' = Step("Close", "ok", pid, p.roomId, Null)
       ELSE /\ UNCHANGED <<players, connections, detached>>
            /\ sent' = << >>
            /\ last' = Step("Close", "absent", pid, Null, Null)
    /\ UNCHANGED <<rooms, npcs, pending, nextPlayer, nextRoom, nextNpc, genCalls, spawnCalls, topups>>

\* mutant of Close: the departure notice is sent whether or not the player
\* was still in the table
Close_AlwaysNotifies(pid) ==
    /\ pid \in {PlayerId(n) : n \in 1..nextPlayer}
    /\ LET pl == [q \in DOMAIN players \ {pid} |-> players[q]]
           conns == connections \ {pid}
       IN /\ players' = pl
          /\ connections' = conns
          /\ detached' = IF pid \in DOMAIN players
                         THEN Held((pid :> players[pid]) @@ detached, pending)
                         ELSE detached
          /\ sent' = broadcastToRoom(pl, conns,
                                      IF pid \in DOMAIN players
                                      THEN players[pid].roomId ELSE hubRoom,
                                      "system", "dissolves", pid)
          /\ last' = Step("Close", IF pid \in DOMAIN players THEN "ok" ELSE "absent",
                          pid, hubRoom, Null)
    /\ UNCHANGED <<rooms, npcs, pending, nextPlayer, nextRoom, nextNpc, genCalls, spawnCalls, topups>>

\* socket.on("close"), for a session that was admitted; when the handler
\* runs again players.get finds nothing, the deletes remove nothing and no
\* notice is sent
Close(pid) ==
    /\ pid \in {PlayerId(n) : n \in 1..nextPlayer}
    /\ IF pid \in DOMAIN players
       THEN LET p == players[pid]
                pl == [q \in DOMAIN players \ {pid} |-> players[q]]
                conns == connections \ {pid}
            IN /\ players' = pl
               /\ connections' = conns
               /\ detached' = Held((pid :> p) @@ detached, pending)
               /\ sent' = broadcastToRoom(pl, conns, p.roomId, "system", "dissolves", pid)
               /\ last' = Step("Close", "ok", pid, p.roomId, Null)
       ELSE /\ players' = [q \in DOMAIN players \ {pid} |-> players[q]]
            /\ connections' = connections \ {pid}
            /\ detached' = detached
            /\ sent' = << >>
            /\ last' = Step("Close", "absent", pid, Null, Null)
    /\ UNCHANGED <<rooms, npcs, pending, nextPlayer, nextRoom, nextNpc, genCalls, spawnCalls, topups>>

----------------------------------------------------------------------------
(* move: handleCommand, command.type === "move" *)

MoveRec(phase, pid, from, direction, exitIdx, target, health, creds) ==
    [phase |-> phase, pid |-> pid, from |-> from, direction |-> direction,
     exitIdx |-> exitIdx, target |-> target, health |-> health, creds |-> creds]

\* lines 925-944: rebind the player, describe the room to the mover, then
\* the departure and arrival notices
Relocate(step, pid, direction, targetId, npcs1, sent0, pend1) ==
    LET old == Obj(pid).roomId
        pl == IF pid \in DOMAIN players
              THEN [players EXCEPT ![pid].roomId = targetId] ELSE players
        det == IF pid \in DOMAIN detached
               THEN [detached EXCEPT ![pid].roomId = targetId] ELSE detached
    IN /\ players' = pl
       /\ detached' = Held(det, pend1)
       /\ npcs' = npcs1
       /\ pending' = pend1
       /\ sent' = sent0 \o
                  sendEvent(connections, pid, "roomDescription", "roomDescription",
                            RoomDescription(pl, npcs1, targetId, pid)) \o
                  broadcastToRoom(pl, connections, old, "system", "leaves", pid) \o
                  broadcastToRoom(pl, connections, targetId, "system", "arrives", pid)
       /\ last' = Step(step, "moved", pid, old, direction)

\* maybeSpawnNormie up to its await: TRUE when the profile generator is called
SpawnSuspends(targetId, sp) ==
    /\ ~(CountNpcsInRoom(npcs, targetId) >= MAX_NORMIES_PER_ROOM)
    /\ sp.draw

\* mutant of ContinueMove: the target is not looked up in the room table
ContinueMove_NoLookup(step, pid, from, direction, targetRoomId, rooms1, pend1, sp) ==
    IF targetRoomId = Null \/ targetRoomId = ""
    THEN /\ sent' = sendEvent(connections, pid, "error", "blocked", direction)
         /\ last' = Step(step, "blocked", pid, from, direction)
         /\ pending' = pend1
         /\ detached' = Held(detached, pend1)
         /\ UNCHANGED <<players, npcs, spawnCalls>>
    ELSE IF SpawnSuspends(targetRoomId, sp)
    THEN /\ spawnCalls < MaxSpawns
         /\ spawnCalls' = spawnCalls + 1
         /\ pending' = Suspend(pend1, MoveRec("profile", pid, from, direction, 0,
                                              targetRoomId, sp.health, sp.creds))
         /\ sent' = << >>
         /\ last' = Step(step, "awaitProfile", pid, from, direction)
         /\ UNCHANGED <<players, npcs, detached>>
    ELSE /\ Relocate(step, pid, direction, targetRoomId, npcs, << >>, pend1)
         /\ UNCHANGED spawnCalls

\* lines 904-944, entered with the exit's target resolved
ContinueMove(step, pid, from, direction, targetRoomId, rooms1, pend1, sp) ==
    IF targetRoomId = Null \/ targetRoomId = ""
    THEN /\ sent' = sendEvent(connections, pid, "error", "blocked", direction)
         /\ last' = Step(step, "blocked", pid, from, direction)
         /\ pending' = pend1
         /\ detached' = Held(detached, pend1)
         /\ UNCHANGED <<players, npcs, spawnCalls>>
    ELSE IF targetRoomId \notin DOMAIN rooms1
    THEN /\ sent' = sendEvent(connections, pid, "error", "glitch", direction)
         /\ last' = Step(step, "glitch", pid, from, direction)
         /\ pending' = pend1
         /\ detached' = Held(detached, pend1)
         /\ UNCHANGED <<players, npcs, spawnCalls>>
    ELSE IF SpawnSuspends(targetRoomId, sp)
    THEN /\ spawnCalls < MaxSpawns
         /\ spawnCalls' = spawnCalls + 1
         /\ pending' = Suspend(pend1, MoveRec("profile", pid, from, direction, 0,
                                              targetRoomId, sp.health, sp.creds))
         /\ sent' = << >>
         /\ last' = Step(step, "awaitProfile", pid, from, direction)
         /\ UNCHANGED <<players, npcs, detached>>
    ELSE /\ Relocate(step, pid, direction, targetRoomId, npcs, << >>, pend1)
         /\ UNCHANGED spawnCalls

\* mutant of NeedsMaterialization: the generator is asked on every move
NeedsMaterialization_Always(exits, idx) == TRUE

\* mutant of NeedsMaterialization: an exit entry with a null target is not expanded
NeedsMaterialization_OnlyAbsent(exits, idx) == idx = 0

\* mutant of NeedsMaterialization: a target that is not in the room table is
\* expanded too
NeedsMaterialization_UnknownToo(exits, idx) ==
    idx = 0 \/ exits[idx].targetRoomId \notin DOMAIN rooms

\* line 852: the exit is undefined, or its target is null
NeedsMaterialization(exits, idx) ==
    idx = 0 \/ exits[idx].targetRoomId = Null

\* lines 848-857 and, when the exit already has a target, 904-944
MoveStart(pid, direction, sp) ==
    /\ pid \in DOMAIN players
    /\ players[pid].roomId \in DOMAIN rooms
    /\ LET from == players[pid].roomId
           idx == FindExit(rooms[from].exits, direction)
       IN IF NeedsMaterialization(rooms[from].exits, idx)
          THEN /\ genCalls < MaxGenCalls
               /\ genCalls' = genCalls + 1
               /\ UNCHANGED spawnCalls
               /\ pending' = Suspend(pending, MoveRec("gen", pid, from, direction, idx,
                                                     Null, 0, 0))
               /\ sent' = << >>
               /\ last' = Step("MoveStart", "awaitGen", pid, from, direction)
               /\ UNCHANGED <<rooms, players, npcs, detached>>
          ELSE /\ ContinueMove("MoveStart", pid, from, direction,
                               rooms[from].exits[idx].targetRoomId, rooms, pending, sp)
               /\ UNCHANGED <<rooms, genCalls>>
    /\ UNCHANGED <<connections, nextPlayer, nextRoom, nextNpc, topups>>

\* mutant of NewRoomId: the new room takes the id of the hub
NewRoomId_Hub(n) == "hub-1"

\* mutant of NewRoomId: the id is not fresh
NewRoomId_Reused(n) == RoomId(1)

\* line 871: a fresh id, `room-` followed by a new UUID; n ids were drawn before
NewRoomId(n) == RoomId(n + 1)

\* the room built from the generator's first candidate (lines 872-883)
NewRoom(first) ==
    [name |-> first.name,
     exits |-> [i \in 1..Len(first.exits) |->
                  [direction |-> first.exits[i].direction,
                   targetRoomId |-> first.exits[i].targetRoomId]]]

\* mutant of WriteBack: the exit is looked up again by direction on resumption
WriteBack_RefindExit(m, newRoomId, first) ==
    LET inserted == (newRoomId :> NewRoom(first)) @@ rooms
        origin == inserted[m.from]
        idx == FindExit(origin.exits, m.direction)
        exits1 == IF idx = 0
                  THEN Append(origin.exits,
                              [direction |-> m.direction, targetRoomId |-> newRoomId])
                  ELSE [origin.exits EXCEPT ![idx].targetRoomId = newRoomId]
    IN [inserted EXCEPT ![m.from].exits = exits1]

\* mutant of WriteBack: the room is inserted, the exit is not written
WriteBack_RoomOnly(m, newRoomId, first) == (newRoomId :> NewRoom(first)) @@ rooms

\* lines 885-892: insert the room, then write the exit the handler holds
WriteBack(m, newRoomId, first) ==
    LET inserted == (newRoomId :> NewRoom(first)) @@ rooms
        origin == inserted[m.from]
        exits1 == IF m.exitIdx = 0
                  THEN Append(origin.exits,
                              [direction |-> m.direction, targetRoomId |-> newRoomId])
                  ELSE [origin.exits EXCEPT ![m.exitIdx].targetRoomId = newRoomId]
    IN [inserted EXCEPT ![m.from].exits = exits1]

\* resumption after `await generateRoomsForExit(ctx)` (lines 859-901);
\* out.ok is FALSE when the call throws, else out.newRooms is the response
GenReturn(m, out, sp) ==
    /\ m \in DOMAIN pending
    /\ m.phase = "gen"
    /\ LET rest == Resume(pending, m)
       IN IF ~out.ok
          THEN /\ sent' = sendEvent(connections, m.pid, "error", "collapses", m.direction)
               /\ last' = Step("GenReturn", "genFailed", m.pid, m.from, m.direction)
               /\ pending' = rest
               /\ detached' = Held(detached, rest)
               /\ UNCHANGED <<rooms, players, npcs, nextRoom, spawnCalls>>
          ELSE IF Len(out.newRooms) = 0
          THEN /\ sent' = sendEvent(connections, m.pid, "error", "unstable", m.direction)
               /\ last' = Step("GenReturn", "genFailed", m.pid, m.from, m.direction)
               /\ pending' = rest
               /\ detached' = Held(detached, rest)
               /\ UNCHANGED <<rooms, players, npcs, nextRoom, spawnCalls>>
          ELSE LET newRoomId == NewRoomId(nextRoom)
                   rooms1 == WriteBack(m, newRoomId, out.newRooms[1])
               IN /\ nextRoom' = nextRoom + 1
                  /\ rooms' = rooms1
                  /\ ContinueMove("GenReturn", m.pid, m.from, m.direction, newRoomId,
                                  rooms1, rest, sp)
    /\ UNCHANGED <<connections, nextPlayer, nextNpc, genCalls, topups>>

\* the NPC maybeSpawnNormie inserts (lines 467-483)
NewNormie(name, health, creds, roomId) ==
    [name |-> name, npcClass |-> "normie", health |-> health,
     attackRating |-> NORMIE_ATTACK_RATING, creds |-> creds, roomId |-> roomId]

\* mutant of ProfileReturn: a failed profile call ends the move with an error
ProfileReturn_FailureBlocks(m, profile) ==
    /\ m \in DOMAIN pending
    /\ m.phase = "profile"
    /\ LET rest == Resume(pending, m)
           npcId == NpcId(nextNpc + 1)
       IN IF profile = "reject"
          THEN /\ nextNpc' = nextNpc
               /\ sent' = sendEvent(connections, m.pid, "error", "collapses", m.direction)
               /\ last' = Step("ProfileReturn", "blocked", m.pid, m.from, m.direction)
               /\ pending' = rest
               /\ detached' = Held(detached, rest)
               /\ UNCHANGED <<players, npcs>>
          ELSE /\ nextNpc' = nextNpc + 1
               /\ Relocate("ProfileReturn", m.pid, m.direction, m.target,
                           (npcId :> NewNormie(profile, m.health, m.creds, m.target)) @@ npcs,
                           broadcastToRoom(players, connections, m.target,
                                           "system", "normieAppears", npcId),
                           rest)
    /\ UNCHANGED <<rooms, connections, nextPlayer, nextRoom, genCalls, spawnCalls, topups>>

\* resumption after `await generateNormieProfile(health)` (lines 465-491),
\* then the rest of move; profile is "reject" or the generated name
ProfileReturn(m, profile) ==
    /\ m \in DOMAIN pending
    /\ m.phase = "profile"
    /\ LET rest == Resume(pending, m)
           npcId == NpcId(nextNpc + 1)
       IN IF profile = "reject"
          THEN /\ nextNpc' = nextNpc
               /\ Relocate("ProfileReturn", m.pid, m.direction, m.target, npcs, << >>, rest)
          ELSE /\ nextNpc' = nextNpc + 1
               /\ Relocate("ProfileReturn", m.pid, m.direction, m.target,
                           (npcId :> NewNormie(profile, m.health, m.creds, m.target)) @@ npcs,
                           broadcastToRoom(players, connections, m.target,
                                           "system", "normieAppears", npcId),
                           rest)
    /\ UNCHANGED <<rooms, connections, nextPlayer, nextRoom, genCalls, spawnCalls, topups>>

----------------------------------------------------------------------------
(* Inventory primitives *)

\* findIndex((item) => item === null): the lowest empty slot, 0 for -1
FreeSlot(items) ==
    IF \E i \in 1..Len(items) : items[i] = Null
    THEN CHOOSE i \in 1..Len(items) :
            items[i] = Null /\ \A j \in 1..(i - 1) : items[j] # Null
    ELSE 0

\* addItemToInventory returns false when no slot is empty
HasFreeSlot(inventory) == FreeSlot(inventory.items) # 0

\* mutant of addItemToInventory: the item goes into the highest empty slot
addItemToInventory_LastSlot(inventory, itemName) ==
    IF FreeSlot(inventory.items) = 0 THEN inventory
    ELSE LET last_ == CHOOSE i \in 1..Len(inventory.items) :
                        /\ inventory.items[i] = Null
                        /\ \A j \in (i + 1)..Len(inventory.items) : inventory.items[j] # Null
         IN [inventory EXCEPT !.items[last_] = itemName]

\* addItemToInventory: the inventory after the call
addItemToInventory(inventory, itemName) ==
    IF FreeSlot(inventory.items) = 0 THEN inventory
    ELSE [inventory EXCEPT !.items[FreeSlot(inventory.items)] = itemName]

\* the index removeItemFromInventory finds: the lowest slot whose name
\* matches case-insensitively, 0 for -1
ItemIndex(items, itemName) ==
    IF \E i \in 1..Len(items) : items[i] # Null /\ Lower(items[i]) = Lower(itemName)
    THEN CHOOSE i \in 1..Len(items) :
            /\ items[i] # Null /\ Lower(items[i]) = Lower(itemName)
            /\ \A j \in 1..(i - 1) : ~(items[j] # Null /\ Lower(items[j]) = Lower(itemName))
    ELSE 0

\* removeItemFromInventory: the inventory after the call
removeItemFromInventory(inventory, itemName) ==
    IF ItemIndex(inventory.items, itemName) = 0 THEN inventory
    ELSE [inventory EXCEPT !.items[ItemIndex(inventory.items, itemName)] = Null]

\* what identifyItem returns for a name that is not in the catalog (null)
NoDefinition == [type |-> Null, attackRating |-> NoValue, healAmount |-> NoValue]

\* identifyItem: the catalog entry of the lower-cased name
identifyItem(itemName) ==
    IF Lower(itemName) \in DOMAIN ITEM_DEFINITIONS
    THEN ITEM_DEFINITIONS[Lower(itemName)] ELSE NoDefinition

\* `value ?? fallback` for an optional numeric field
OrElse(value, fallback) == IF value = NoValue THEN fallback ELSE value

Max(a, b) == IF a >= b THEN a ELSE b
Min(a, b) == IF a <= b THEN a ELSE b

----------------------------------------------------------------------------
(* Commands that run to completion: top-up, talk, equip, unequip *)

\* what a synchronous handler leaves alone beyond its own writes
SyncFrame ==
    UNCHANGED <<rooms, connections, detached, pending, nextPlayer, nextRoom, nextNpc,
                genCalls, spawnCalls>>

\* a handler's only output is one event to the issuing session
Reply(step, res, pid, arg, type) ==
    /\ sent' = sendEvent(connections, pid, type, res, arg)
    /\ last' = Step(step, res, pid, players[pid].roomId, arg)

\* handleHttpRequest, /x402/payments/<playerId> with a payment proof
Topup(pid) ==
    /\ pid \in DOMAIN players
    /\ topups < MaxTopups
    /\ topups' = topups + 1
    /\ players' = [players EXCEPT ![pid].creds = @ + TOPUP_CREDITS]
    /\ Reply("Topup", "paid", pid, Null, "system")
    /\ UNCHANGED npcs
    /\ SyncFrame

\* findVendorInRoom: the NPC id, Null for undefined (Chet is the only vendor)
findVendorInRoom(ns, roomId, name) ==
    LET found == {id \in listNpcsInRoom(ns, roomId) :
                     ns[id].npcClass = "vendor" /\ Lower(ns[id].name) = Lower(name)}
    IN IF found = {} THEN Null ELSE CHOOSE id \in found : TRUE

\* stock.find: the index of the wanted item in the stock, 0 for undefined
StockIndex(stock, itemName) ==
    IF \E i \in 1..Len(stock) : Lower(stock[i].name) = Lower(itemName)
    THEN CHOOSE i \in 1..Len(stock) :
            /\ Lower(stock[i].name) = Lower(itemName)
            /\ \A j \in 1..(i - 1) : Lower(stock[j].name) # Lower(itemName)
    ELSE 0

\* mutant of Purchase: the buyer's creds are not looked at
Purchase_OnCredit(pid, vendorId, desired) ==
    LET cost == OrElse(desired.cost, 0)
        debited == [players EXCEPT ![pid].creds = @ - cost]
        credited == [npcs EXCEPT ![vendorId].creds = @ + cost]
    IN IF ~HasFreeSlot(debited[pid].inventory)
       THEN /\ players' = [debited EXCEPT ![pid].creds = @ + cost]
            /\ npcs' = [credited EXCEPT ![vendorId].creds = @ - cost]
            /\ Reply("Talk", "packFull", pid, desired.name, "error")
       ELSE /\ players' = [debited EXCEPT ![pid].inventory =
                              addItemToInventory(@, desired.name)]
            /\ npcs' = credited
            /\ Reply("Talk", "bought", pid, desired.name, "system")

\* mutant of Purchase: the vendor is credited before the buyer's creds are
\* looked at
Purchase_CreditsVendorFirst(pid, vendorId, desired) ==
    LET cost == OrElse(desired.cost, 0)
        debited == [players EXCEPT ![pid].creds = @ - cost]
        credited == [npcs EXCEPT ![vendorId].creds = @ + cost]
    IN IF players[pid].creds < cost
       THEN /\ Reply("Talk", "tooPoor", pid, desired.name, "error")
            /\ npcs' = credited
            /\ UNCHANGED players
       ELSE IF ~HasFreeSlot(debited[pid].inventory)
       THEN /\ players' = [debited EXCEPT ![pid].creds = @ + cost]
            /\ npcs' = credited
            /\ Reply("Talk", "packFull", pid, desired.name, "error")
       ELSE /\ players' = [debited EXCEPT ![pid].inventory =
                              addItemToInventory(@, desired.name)]
            /\ npcs' = credited
            /\ Reply("Talk", "bought", pid, desired.name, "system")

\* lines 402-433: the purchase, with the refund when the pack is full
\* mutant of Purchase: a full pack keeps the payment
Purchase_NoRefund(pid, vendorId, desired) ==
    LET cost == OrElse(desired.cost, 0)
        debited == [players EXCEPT ![pid].creds = @ - cost]
        credited == [npcs EXCEPT ![vendorId].creds = @ + cost]
    IN IF players[pid].creds < cost
       THEN /\ Reply("Talk", "tooPoor", pid, desired.name, "error")
            /\ UNCHANGED <<players, npcs>>
       ELSE IF ~HasFreeSlot(debited[pid].inventory)
       THEN /\ players' = debited
            /\ npcs' = credited
            /\ Reply("Talk", "packFull", pid, desired.name, "error")
       ELSE /\ players' = [debited EXCEPT ![pid].inventory =
                              addItemToInventory(@, desired.name)]
            /\ npcs' = credited
            /\ Reply("Talk", "bought", pid, desired.name, "system")

Purchase(pid, vendorId, desired) ==
    LET cost == OrElse(desired.cost, 0)
        debited == [players EXCEPT ![pid].creds = @ - cost]
        credited == [npcs EXCEPT ![vendorId].creds = @ + cost]
    IN IF players[pid].creds < cost
       THEN /\ Reply("Talk", "tooPoor", pid, desired.name, "error")
            /\ UNCHANGED <<players, npcs>>
       ELSE IF ~HasFreeSlot(debited[pid].inventory)
       THEN /\ players' = [debited EXCEPT ![pid].creds = @ + cost]
            /\ npcs' = [credited EXCEPT ![vendorId].creds = @ - cost]
            /\ Reply("Talk", "packFull", pid, desired.name, "error")
       ELSE /\ players' = [debited EXCEPT ![pid].inventory =
                              addItemToInventory(@, desired.name)]
            /\ npcs' = credited
            /\ Reply("Talk", "bought", pid, desired.name, "system")

\* handleCommand, command.type === "talk", and handleTalk
Talk(pid, rawTarget, action, itemName) ==
    /\ pid \in DOMAIN players
    /\ players[pid].roomId \in DOMAIN rooms
    /\ LET target == Trim(rawTarget)
           vendorId == findVendorInRoom(npcs, players[pid].roomId, target)
       IN IF target = ""
          THEN Reply("Talk", "talkToWhom", pid, target, "error") /\ UNCHANGED <<players, npcs>>
          ELSE IF vendorId = Null \/ Lower(npcs[vendorId].name) # "chet"
          THEN Reply("Talk", "noVendor", pid, target, "error") /\ UNCHANGED <<players, npcs>>
          ELSE IF action = Undefined \/ action = "list"
          THEN Reply("Talk", "list", pid, target, "system") /\ UNCHANGED <<players, npcs>>
          ELSE IF action = "leave"
          THEN Reply("Talk", "leave", pid, target, "system") /\ UNCHANGED <<players, npcs>>
          ELSE IF action = "buy"
          THEN IF itemName = Undefined \/ itemName = ""
               THEN Reply("Talk", "buyWhat", pid, itemName, "error") /\ UNCHANGED <<players, npcs>>
               ELSE IF StockIndex(npcs[vendorId].vendorStock, itemName) = 0
               THEN Reply("Talk", "notCarried", pid, itemName, "error") /\ UNCHANGED <<players, npcs>>
               ELSE Purchase(pid, vendorId,
                             npcs[vendorId].vendorStock[StockIndex(npcs[vendorId].vendorStock, itemName)])
          ELSE Reply("Talk", "badAction", pid, target, "error") /\ UNCHANGED <<players, npcs>>
    /\ UNCHANGED topups
    /\ SyncFrame

\* mutant of EquipWeapon: the weapon in hand is dropped, not stowed
EquipWeapon_NoStow(pid, inv, foundItem, definition) ==
    /\ players' = [players EXCEPT
                      ![pid].inventory = [inv EXCEPT !.weapon = foundItem],
                      ![pid].attackRating = OrElse(definition.attackRating, FIST_ATTACK_RATING)]
    /\ Reply("Equip", "equippedWeapon", pid, foundItem, "system")

\* mutant of EquipWeapon: the attack rating is left as it was
EquipWeapon_KeepsRating(pid, inv, foundItem, definition) ==
    LET currentWeapon == inv.weapon
        stows == currentWeapon # Null /\ Lower(currentWeapon) # "fist"
        stowed == IF stows THEN addItemToInventory(inv, currentWeapon) ELSE inv
    IN IF stows /\ ~HasFreeSlot(inv)
       THEN /\ players' = [players EXCEPT ![pid].inventory = addItemToInventory(inv, foundItem)]
            /\ Reply("Equip", "noSpaceForWeapon", pid, foundItem, "error")
       ELSE /\ players' = [players EXCEPT
                              ![pid].inventory = [stowed EXCEPT !.weapon = foundItem]]
            /\ Reply("Equip", "equippedWeapon", pid, foundItem, "system")

\* lines 649-671: equip a weapon; inv is the inventory with foundItem drawn
EquipWeapon(pid, inv, foundItem, definition) ==
    LET currentWeapon == inv.weapon
        stows == currentWeapon # Null /\ Lower(currentWeapon) # "fist"
        stowed == IF stows THEN addItemToInventory(inv, currentWeapon) ELSE inv
    IN IF stows /\ ~HasFreeSlot(inv)
       THEN /\ players' = [players EXCEPT ![pid].inventory = addItemToInventory(inv, foundItem)]
            /\ Reply("Equip", "noSpaceForWeapon", pid, foundItem, "error")
       ELSE /\ players' = [players EXCEPT
                              ![pid].inventory = [stowed EXCEPT !.weapon = foundItem],
                              ![pid].attackRating = OrElse(definition.attackRating,
                                                           FIST_ATTACK_RATING)]
            /\ Reply("Equip", "equippedWeapon", pid, foundItem, "system")

\* lines 674-695: equip armor
EquipArmor(pid, inv, foundItem) ==
    LET currentArmor == inv.armor
        stows == currentArmor # Null /\ currentArmor # ""
        stowed == IF stows THEN addItemToInventory(inv, currentArmor) ELSE inv
    IN IF stows /\ ~HasFreeSlot(inv)
       THEN /\ players' = [players EXCEPT ![pid].inventory = addItemToInventory(inv, foundItem)]
            /\ Reply("Equip", "noSpaceForArmor", pid, foundItem, "error")
       ELSE /\ players' = [players EXCEPT ![pid].inventory = [stowed EXCEPT !.armor = foundItem]]
            /\ Reply("Equip", "equippedArmor", pid, foundItem, "system")

\* mutant of Heal: the health is not capped
Heal_NoCap(health, healAmount) == health + healAmount

\* line 700: the health after healing, capped at the maximum
Heal(health, healAmount) == Min(PLAYER_MAX_HEALTH, health + healAmount)

\* mutant of Consume: at full health the item goes back into the pack
Consume_OnlyWhenHurt(pid, inv, foundItem, definition) ==
    LET healAmount == Max(0, OrElse(definition.healAmount, 0))
        health == Heal(players[pid].health, healAmount)
    IN /\ players' = [players EXCEPT
                         ![pid].inventory = IF players[pid].health = PLAYER_MAX_HEALTH
                                            THEN addItemToInventory(inv, foundItem) ELSE inv,
                         ![pid].health = health]
       /\ sent' = sendEvent(connections, pid, "system", "consumed", health - players[pid].health)
       /\ last' = Step("Equip", "consumed", pid, players[pid].roomId, foundItem)

\* lines 697-711: an item of category item is consumed and heals; the event
\* carries the amount healed
Consume(pid, inv, foundItem, definition) ==
    LET healAmount == Max(0, OrElse(definition.healAmount, 0))
        health == Heal(players[pid].health, healAmount)
    IN /\ players' = [players EXCEPT ![pid].inventory = inv, ![pid].health = health]
       /\ sent' = sendEvent(connections, pid, "system", "consumed", health - players[pid].health)
       /\ last' = Step("Equip", "consumed", pid, players[pid].roomId, foundItem)

\* handleCommand, command.type === "equip"
Equip(pid, rawItem) ==
    /\ pid \in DOMAIN players
    /\ players[pid].roomId \in DOMAIN rooms
    /\ LET itemName == Trim(rawItem)
           inventory == players[pid].inventory
           index == ItemIndex(inventory.items, itemName)
           foundItem == inventory.items[index]
           drawn == removeItemFromInventory(inventory, itemName)
           definition == identifyItem(foundItem)
       IN IF itemName = ""
          THEN Reply("Equip", "equipWhat", pid, itemName, "error") /\ UNCHANGED players
          ELSE IF index = 0 \/ foundItem = ""
          THEN /\ players' = [players EXCEPT ![pid].inventory = drawn]
               /\ Reply("Equip", "notInInventory", pid, itemName, "error")
          ELSE IF definition = NoDefinition
          THEN /\ players' = [players EXCEPT ![pid].inventory =
                                 addItemToInventory(drawn, foundItem)]
               /\ Reply("Equip", "unknownItem", pid, foundItem, "error")
          ELSE IF definition.type = "weapon" THEN EquipWeapon(pid, drawn, foundItem, definition)
          ELSE IF definition.type = "armor" THEN EquipArmor(pid, drawn, foundItem)
          ELSE IF definition.type = "item" THEN Consume(pid, drawn, foundItem, definition)
          ELSE /\ players' = [players EXCEPT ![pid].inventory =
                                 addItemToInventory(drawn, foundItem)]
               /\ Reply("Equip", "cannotEquip", pid, foundItem, "error")
    /\ UNCHANGED <<npcs, topups>>
    /\ SyncFrame

\* mutant of Unequip: with a full pack the weapon is dropped
Unequip_DropsWeapon(pid, rawSlot) ==
    /\ pid \in DOMAIN players
    /\ players[pid].roomId \in DOMAIN rooms
    /\ LET slot == IF rawSlot = Undefined THEN "weapon" ELSE rawSlot
           inventory == players[pid].inventory
       IN IF slot = "weapon"
          THEN IF inventory.weapon = Null \/ inventory.weapon = "" \/ Lower(inventory.weapon) = "fist"
               THEN /\ players' = [players EXCEPT ![pid].inventory.weapon = "fist",
                                                  ![pid].attackRating = FIST_ATTACK_RATING]
                    /\ Reply("Unequip", "fists", pid, slot, "system")
               ELSE IF ~HasFreeSlot(inventory)
               THEN /\ players' = [players EXCEPT ![pid].inventory.weapon = "fist",
                                                  ![pid].attackRating = FIST_ATTACK_RATING]
                    /\ Reply("Unequip", "noSpaceForWeapon", pid, slot, "error")
               ELSE /\ players' = [players EXCEPT
                                      ![pid].inventory =
                                          [addItemToInventory(inventory, inventory.weapon)
                                              EXCEPT !.weapon = "fist"],
                                      ![pid].attackRating = FIST_ATTACK_RATING]
                    /\ Reply("Unequip", "stowedWeapon", pid, slot, "system")
          ELSE IF inventory.armor = Null \/ inventory.armor = ""
               THEN Reply("Unequip", "noArmor", pid, slot, "system") /\ UNCHANGED players
               ELSE IF ~HasFreeSlot(inventory)
               THEN Reply("Unequip", "noSpaceForArmor", pid, slot, "error") /\ UNCHANGED players
               ELSE /\ players' = [players EXCEPT
                                      ![pid].inventory =
                                          [addItemToInventory(inventory, inventory.armor)
                                              EXCEPT !.armor = Null]]
                    /\ Reply("Unequip", "removedArmor", pid, slot, "system")
    /\ UNCHANGED <<npcs, topups>>
    /\ SyncFrame

\* mutant of Unequip: stowing the weapon leaves the attack rating as it was
Unequip_KeepsRating(pid, rawSlot) ==
    /\ pid \in DOMAIN players
    /\ players[pid].roomId \in DOMAIN rooms
    /\ LET slot == IF rawSlot = Undefined THEN "weapon" ELSE rawSlot
           inventory == players[pid].inventory
       IN IF slot = "weapon"
          THEN IF inventory.weapon = Null \/ inventory.weapon = "" \/ Lower(inventory.weapon) = "fist"
               THEN /\ players' = [players EXCEPT ![pid].inventory.weapon = "fist",
                                                  ![pid].attackRating = FIST_ATTACK_RATING]
                    /\ Reply("Unequip", "fists", pid, slot, "system")
               ELSE IF ~HasFreeSlot(inventory)
               THEN Reply("Unequip", "noSpaceForWeapon", pid, slot, "error") /\ UNCHANGED players
               ELSE /\ players' = [players EXCEPT
                                      ![pid].inventory =
                                          [addItemToInventory(inventory, inventory.weapon)
                                              EXCEPT !.weapon = "fist"]]
                    /\ Reply("Unequip", "stowedWeapon", pid, slot, "system")
          ELSE IF inventory.armor = Null \/ inventory.armor = ""
               THEN Reply("Unequip", "noArmor", pid, slot, "system") /\ UNCHANGED players
               ELSE IF ~HasFreeSlot(inventory)
               THEN Reply("Unequip", "noSpaceForArmor", pid, slot, "error") /\ UNCHANGED players
               ELSE /\ players' = [players EXCEPT
                                      ![pid].inventory =
                                          [addItemToInventory(inventory, inventory.armor)
                                              EXCEPT !.armor = Null]]
                    /\ Reply("Unequip", "removedArmor", pid, slot, "system")
    /\ UNCHANGED <<npcs, topups>>
    /\ SyncFrame

\* handleCommand, command.type === "unequip"
Unequip(pid, rawSlot) ==
    /\ pid \in DOMAIN players
    /\ players[pid].roomId \in DOMAIN rooms
    /\ LET slot == IF rawSlot = Undefined THEN "weapon" ELSE rawSlot
           inventory == players[pid].inventory
       IN IF slot = "weapon"
          THEN IF inventory.weapon = Null \/ inventory.weapon = "" \/ Lower(inventory.weapon) = "fist"
               THEN /\ players' = [players EXCEPT ![pid].inventory.weapon = "fist",
                                                  ![pid].attackRating = FIST_ATTACK_RATING]
                    /\ Reply("Unequip", "fists", pid, slot, "system")
               ELSE IF ~HasFreeSlot(inventory)
               THEN Reply("Unequip", "noSpaceForWeapon", pid, slot, "error") /\ UNCHANGED players
               ELSE /\ players' = [players EXCEPT
                                      ![pid].inventory =
                                          [addItemToInventory(inventory, inventory.weapon)
                                              EXCEPT !.weapon = "fist"],
                                      ![pid].attackRating = FIST_ATTACK_RATING]
                    /\ Reply("Unequip", "stowedWeapon", pid, slot, "system")
          ELSE IF inventory.armor = Null \/ inventory.armor = ""
               THEN Reply("Unequip", "noArmor", pid, slot, "system") /\ UNCHANGED players
               ELSE IF ~HasFreeSlot(inventory)
               THEN Reply("Unequip", "noSpaceForArmor", pid, slot, "error") /\ UNCHANGED players
               ELSE /\ players' = [players EXCEPT
                                      ![pid].inventory =
                                          [addItemToInventory(inventory, inventory.armor)
                                              EXCEPT !.armor = Null]]
                    /\ Reply("Unequip", "removedArmor", pid, slot, "system")
    /\ UNCHANGED <<npcs, topups>>
    /\ SyncFrame

----------------------------------------------------------------------------
(* Combat: handleCommand, command.type === "attack", and handleAttack *)

\* listOtherActorsInRoom(...).find((actor) => !actor.isNpc && name matches):
\* the other players of the room that carry the name
OtherPlayersNamed(roomId, excludePlayerId, name) ==
    {q \in DOMAIN players :
        /\ players[q].roomId = roomId /\ q # excludePlayerId
        /\ Lower(players[q].name) = Lower(name)}

\* the normies of the room that carry the name, as the numbers of their ids
NormiesNamed(roomId, name) ==
    {n \in 1..nextNpc :
        /\ NpcId(n) \in DOMAIN npcs
        /\ npcs[NpcId(n)].roomId = roomId
        /\ npcs[NpcId(n)].npcClass = "normie"
        /\ Lower(npcs[NpcId(n)].name) = Lower(name)}

\* findNormieInRoom: the first match in insertion order, Null for undefined
findNormieInRoom(roomId, name) ==
    LET found == NormiesNamed(roomId, name)
    IN IF found = {} THEN Null
       ELSE NpcId(CHOOSE n \in found : \A k \in found : n <= k)

\* mutant of Damage: the blow counts twice
Damage_Doubled(attackRating) == 2 * Max(0, attackRating)

\* lines 527-529: the damage dealt and the health it leaves
Damage(attackRating) == Max(0, attackRating)

\* mutant of Hit: the health is not floored at 0
Hit_NoFloor(health, attackRating) == health - Damage(attackRating)

\* line 529 (and 559): the health a blow leaves, floored at 0
Hit(health, attackRating) == Max(0, health - Damage(attackRating))

\* mutant of Strike: the defeated Normie is left in the directory
Strike_LeavesTheFallen(pid, roomId, npcId) ==
    LET npc == npcs[npcId]
        hp == Hit(npc.health, players[pid].attackRating)
        struck == broadcastToRoom(players, connections, roomId, "system", "attacks", hp)
    IN IF hp <= 0
       THEN LET loot == npc.creds
                pl == IF loot > 0 THEN [players EXCEPT ![pid].creds = @ + loot] ELSE players
            IN /\ npcs' = [npcs EXCEPT ![npcId].health = hp]
               /\ players' = pl
               /\ sent' = struck \o
                          broadcastToRoom(players, connections, roomId, "system", "defeated", npcId) \o
                          (IF loot > 0 THEN sendEvent(connections, pid, "system", "loot", loot)
                           ELSE << >>)
               /\ last' = Step("Attack", "defeated", pid, roomId, npcId)
       ELSE LET health == Hit(players[pid].health, npc.attackRating)
            IN /\ npcs' = [npcs EXCEPT ![npcId].health = hp]
               /\ players' = [players EXCEPT ![pid].health = health]
               /\ sent' = struck \o
                          broadcastToRoom(players, connections, roomId, "system", "strikesBack", health) \o
                          (IF health <= 0
                           THEN sendEvent(connections, pid, "system", "overwhelmed", Null)
                           ELSE << >>)
               /\ last' = Step("Attack", "retaliated", pid, roomId, npcId)

\* lines 527-575, with the target found
Strike(pid, roomId, npcId) ==
    LET npc == npcs[npcId]
        hp == Hit(npc.health, players[pid].attackRating)
        struck == broadcastToRoom(players, connections, roomId, "system", "attacks", hp)
    IN IF hp <= 0
       THEN LET loot == npc.creds
                pl == IF loot > 0 THEN [players EXCEPT ![pid].creds = @ + loot] ELSE players
            IN /\ npcs' = [id \in DOMAIN npcs \ {npcId} |-> npcs[id]]
               /\ players' = pl
               /\ sent' = struck \o
                          broadcastToRoom(players, connections, roomId, "system", "defeated", npcId) \o
                          (IF loot > 0 THEN sendEvent(connections, pid, "system", "loot", loot)
                           ELSE << >>)
               /\ last' = Step("Attack", "defeated", pid, roomId, npcId)
       ELSE LET health == Hit(players[pid].health, npc.attackRating)
            IN /\ npcs' = [npcs EXCEPT ![npcId].health = hp]
               /\ players' = [players EXCEPT ![pid].health = health]
               /\ sent' = struck \o
                          broadcastToRoom(players, connections, roomId, "system", "strikesBack", health) \o
                          (IF health <= 0
                           THEN sendEvent(connections, pid, "system", "overwhelmed", Null)
                           ELSE << >>)
               /\ last' = Step("Attack", "retaliated", pid, roomId, npcId)

Attack(pid, rawTarget) ==
    /\ pid \in DOMAIN players
    /\ players[pid].roomId \in DOMAIN rooms
    /\ LET target == Trim(rawTarget)
           roomId == players[pid].roomId
       IN IF target = ""
          THEN Reply("Attack", "attackWho", pid, target, "error") /\ UNCHANGED <<players, npcs>>
          ELSE IF OtherPlayersNamed(roomId, pid, target) # {}
          THEN Reply("Attack", "friendly", pid, target, "system") /\ UNCHANGED <<players, npcs>>
          ELSE IF findNormieInRoom(roomId, target) = Null
          THEN Reply("Attack", "noNormie", pid, target, "error") /\ UNCHANGED <<players, npcs>>
          ELSE Strike(pid, roomId, findNormieInRoom(roomId, target))
    /\ UNCHANGED topups
    /\ SyncFrame

----------------------------------------------------------------------------
(* The plain commands of handleCommand *)

\* String.prototype.slice(0, n)
Slice(s, n) == IF Len(s) <= n THEN s ELSE SubSeq(s, 1, n)

\* command.type === "setName" (lines 585-593)
SetName(pid, name) ==
    /\ pid \in DOMAIN players
    /\ players[pid].roomId \in DOMAIN rooms
    /\ players' = [players EXCEPT ![pid].name = Slice(name, 32)]
    /\ sent' = sendEvent(connections, pid, "system", "named", Slice(name, 32))
    /\ last' = Step("SetName", "named", pid, players[pid].roomId, name)
    /\ UNCHANGED <<npcs, topups>>
    /\ SyncFrame

\* command.type === "status" (lines 595-602)
Status(pid) ==
    /\ pid \in DOMAIN players
    /\ players[pid].roomId \in DOMAIN rooms
    /\ Reply("Status", "status", pid, players[pid], "system")
    /\ UNCHANGED <<players, npcs, topups>>
    /\ SyncFrame

\* command.type === "topup" (lines 604-614): the payment URL is sent
TopupInfo(pid) ==
    /\ pid \in DOMAIN players
    /\ players[pid].roomId \in DOMAIN rooms
    /\ Reply("TopupInfo", "topupUrl", pid, pid, "system")
    /\ UNCHANGED <<players, npcs, topups>>
    /\ SyncFrame

\* command.type === "look" (lines 791-799)
Look(pid) ==
    /\ pid \in DOMAIN players
    /\ players[pid].roomId \in DOMAIN rooms
    /\ sent' = sendEvent(connections, pid, "roomDescription", "roomDescription",
                         RoomDescription(players, npcs, players[pid].roomId, pid))
    /\ last' = Step("Look", "ok", pid, players[pid].roomId, Null)
    /\ UNCHANGED <<players, npcs, topups>>
    /\ SyncFrame

\* mutant of Say: the chat event goes to every room
Say_ToEveryone(pid, message) ==
    /\ pid \in DOMAIN players
    /\ players[pid].roomId \in DOMAIN rooms
    /\ LET msg == Slice(Trim(message), 512)
       IN IF msg = ""
          THEN /\ sent' = << >>
               /\ last' = Step("Say", "empty", pid, players[pid].roomId, message)
          ELSE /\ sent' = broadcastToRoom([q \in DOMAIN players |->
                                              [players[q] EXCEPT !.roomId = hubRoom]],
                                          connections, hubRoom, "chat", msg, pid)
               /\ last' = Step("Say", "said", pid, players[pid].roomId, message)
    /\ UNCHANGED <<players, npcs, topups>>
    /\ SyncFrame

\* mutant of Say: the command waits until no move is suspended
Say_AfterMoves(pid, message) ==
    /\ pid \in DOMAIN players
    /\ players[pid].roomId \in DOMAIN rooms
    /\ DOMAIN pending = {}
    /\ sent' = broadcastToRoom(players, connections, players[pid].roomId,
                               "chat", Slice(Trim(message), 512), pid)
    /\ last' = Step("Say", "said", pid, players[pid].roomId, message)
    /\ UNCHANGED <<players, npcs, topups>>
    /\ SyncFrame

\* command.type === "say" (lines 801-815)
Say(pid, message) ==
    /\ pid \in DOMAIN players
    /\ players[pid].roomId \in DOMAIN rooms
    /\ LET msg == Slice(Trim(message), 512)
       IN IF msg = ""
          THEN /\ sent' = << >>
               /\ last' = Step("Say", "empty", pid, players[pid].roomId, message)
          ELSE /\ sent' = broadcastToRoom(players, connections, players[pid].roomId,
                                          "chat", msg, pid)
               /\ last' = Step("Say", "said", pid, players[pid].roomId, message)
    /\ UNCHANGED <<players, npcs, topups>>
    /\ SyncFrame

----------------------------------------------------------------------------
(* Inbound payloads: parseClientCommand and socket.on("message") *)

\* a JSON value with its typeof
JStr(s) == [t |-> "string", v |-> s]
JNum == [t |-> "number", v |-> "5"]
JUndef == [t |-> "undefined", v |-> ""]

\* a parsed JSON object with none of the fields the parser reads
EmptyObject ==
    [json |-> "object", type |-> JUndef, message |-> JUndef, direction |-> JUndef,
     name |-> JUndef, target |-> JUndef, action |-> JUndef, item |-> JUndef,
     slot |-> JUndef]

\* the object with the given fields
Json(fields) == fields @@ EmptyObject

\* payloads that are no JSON object: text JSON.parse throws on, a number, null
NotJson == [EmptyObject EXCEPT !.json = "invalid"]
JsonNumber == [EmptyObject EXCEPT !.json = "number"]
JsonNull == [EmptyObject EXCEPT !.json = "null"]

\* a ClientCommand; the fields a command does not have are Undefined
Command(type) ==
    [type |-> type, message |-> Undefined, direction |-> Undefined, name |-> Undefined,
     target |-> Undefined, action |-> Undefined, item |-> Undefined, slot |-> Undefined]

\* parseClientCommand returns null
NoCommand == Command(Null)

\* mutant of IsString: the field is present, of whatever type
IsString_Present(x) == x.t # "undefined"

\* typeof x === "string"
IsString(x) == x.t = "string"

\* parseClientCommand (lines 948-1000)
parseClientCommand(parsed) ==
    IF parsed.json # "object" THEN NoCommand
    ELSE IF parsed.type = JStr("look") THEN Command("look")
    ELSE IF parsed.type = JStr("say") /\ IsString(parsed.message)
    THEN [Command("say") EXCEPT !.message = parsed.message.v]
    ELSE IF parsed.type = JStr("move") /\ IsString(parsed.direction)
    THEN [Command("move") EXCEPT !.direction = parsed.direction.v]
    ELSE IF parsed.type = JStr("setName") /\ IsString(parsed.name)
    THEN [Command("setName") EXCEPT !.name = parsed.name.v]
    ELSE IF parsed.type = JStr("attack") /\ IsString(parsed.target)
    THEN [Command("attack") EXCEPT !.target = parsed.target.v]
    ELSE IF parsed.type = JStr("status") THEN Command("status")
    ELSE IF parsed.type = JStr("topup") THEN Command("topup")
    ELSE IF parsed.type = JStr("inventory") THEN Command("status")
    ELSE IF parsed.type = JStr("equip") /\ IsString(parsed.item)
    THEN [Command("equip") EXCEPT !.item = parsed.item.v]
    ELSE IF /\ parsed.type = JStr("unequip")
            /\ parsed.slot \in {JUndef, JStr("weapon"), JStr("armor")}
    THEN [Command("unequip") EXCEPT
             !.slot = IF parsed.slot = JUndef THEN Undefined ELSE parsed.slot.v]
    ELSE IF parsed.type = JStr("talk") /\ IsString(parsed.target)
    THEN [Command("talk") EXCEPT
             !.target = parsed.target.v,
             !.action = IF parsed.action \in {JStr("list"), JStr("buy"), JStr("leave")}
                        THEN parsed.action.v ELSE Undefined,
             !.item = IF IsString(parsed.item) THEN parsed.item.v ELSE Undefined]
    ELSE NoCommand

\* handleCommand (lines 577-946): the handler of the command's type
HandleCommand(pid, command, sp) ==
    CASE command.type = "setName" -> SetName(pid, command.name)
      [] command.type = "status" -> Status(pid)
      [] command.type = "topup" -> TopupInfo(pid)
      [] command.type = "equip" -> Equip(pid, command.item)
      [] command.type = "unequip" -> Unequip(pid, command.slot)
      [] command.type = "look" -> Look(pid)
      [] command.type = "say" -> Say(pid, command.message)
      [] command.type = "attack" -> Attack(pid, command.target)
      [] command.type = "talk" -> Talk(pid, command.target, command.action, command.item)
      [] command.type = "move" -> MoveStart(pid, command.direction, sp)

\* lines 1112-1119: the payload did not parse
Malformed(pid) ==
    /\ sent' = sendEvent(connections, pid, "error", "malformed", Null)
    /\ last' = Step("Message", "malformed", pid, Null, Null)
    /\ UNCHANGED <<rooms, players, connections, npcs, detached, pending, nextPlayer,
                   nextRoom, nextNpc, genCalls, spawnCalls, topups>>

\* socket.on("message") (lines 1109-1121)
Message(pid, raw, sp) ==
    /\ pid \in connections
    /\ IF parseClientCommand(raw) = NoCommand
       THEN Malformed(pid)
       ELSE HandleCommand(pid, parseClientCommand(raw), sp)

----------------------------------------------------------------------------
(* World specification: admission, disconnection and move, with both      *)
(* collaborators answering in any order and with any outcome               *)

Exit(direction, targetRoomId) == [direction |-> direction, targetRoomId |-> targetRoomId]

\* candidate rooms the content generator may propose
CandDeadEnd == [name |-> "Cavern", exits |-> << >>]
CandBack == [name |-> "Gallery", exits |-> << Exit("north", Null), Exit("south", "hub-1") >>]
CandGhost == [name |-> "Mirage", exits |-> << Exit("north", "room-ghost"), Exit("south", "") >>]

\* outcomes of generateRoomsForExit: a rejection, no candidate, one or two
GenRejects == [ok |-> FALSE, newRooms |-> << >>]
GenReturns(newRooms) == [ok |-> TRUE, newRooms |-> newRooms]
GenOutcomes ==
    { GenRejects,
      GenReturns(<< >>),
      GenReturns(<< CandBack, CandDeadEnd >>) }

\* directions a client sends
MoveDirections == {"north", "south"}

\* the random draws of maybeSpawnNormie: whether Math.random() passes the
\* chance, the health in [15, 100], the creds in [0, 50]
Draw(draw, health, creds) == [draw |-> draw, health |-> health, creds |-> creds]
WorldDraws == { Draw(FALSE, NORMIE_MIN_HEALTH, 0), Draw(TRUE, NORMIE_MIN_HEALTH, 7) }

\* outcomes of generateNormieProfile: a rejection or a name
WorldProfiles == {"reject", "Bob"}

AdmittedIds == {PlayerId(n) : n \in 1..nextPlayer}

NextWorld ==
    \/ Connect
    \/ \E pid \in AdmittedIds, d \in MoveDirections, sp \in WorldDraws :
          MoveStart(pid, d, sp) /\ spawnCalls' <= WorldSpawns
    \/ \E m \in DOMAIN pending, out \in GenOutcomes, sp \in WorldDraws :
          GenReturn(m, out, sp) /\ spawnCalls' <= WorldSpawns
    \/ \E m \in DOMAIN pending, profile \in WorldProfiles : ProfileReturn(m, profile)

SpecWorld == Init /\ [][NextWorld]_vars

----------------------------------------------------------------------------
(* Trade specification: one session in the hub with the vendor; top-up,   *)
(* talk, equip and unequip in any order                                    *)

\* talk commands a client sends: target, action?, item?
TalkCmd(target, action, item) == [target |-> target, action |-> action, item |-> item]
TradeTalks ==
    { TalkCmd("chet", Undefined, Undefined),
      TalkCmd("Chet", "leave", Undefined),
      TalkCmd("bob", "buy", "Broken Ledger"),
      TalkCmd("  ", "list", Undefined),
      TalkCmd(" chet ", "buy", Undefined),
      TalkCmd("CHET", "buy", "broken ledger"),
      TalkCmd("chet", "buy", "sword") }

TradeEquips == {"BROKEN LEDGER", "sword", "  "}
UnequipSlots == {Undefined, "weapon", "armor"}

NextTrade ==
    \/ nextPlayer = 0 /\ Connect
    \/ \E pid \in AdmittedIds : Topup(pid)
    \/ \E pid \in AdmittedIds, c \in TradeTalks : Talk(pid, c.target, c.action, c.item)
    \/ \E pid \in AdmittedIds, it \in TradeEquips : Equip(pid, it)
    \/ \E pid \in AdmittedIds, sl \in UnequipSlots : Unequip(pid, sl)

SpecTrade == Init /\ [][NextTrade]_vars

----------------------------------------------------------------------------
(* Combat specification: one session walks between the hub and the vault, *)
(* meets the normies that spawn, fights them, and spends the loot on       *)
(* drinks that heal                                                        *)

CombatDirections == {"up", "down"}
CombatDraws ==
    { Draw(FALSE, NORMIE_MIN_HEALTH, 0), Draw(TRUE, NORMIE_MIN_HEALTH, 5),
      Draw(TRUE, NORMIE_MAX_HEALTH, 0) }
CombatProfiles == {"reject", "Bob"}
CombatTargets == {"bob", "chet", "  "}
CombatTalks == { TalkCmd("chet", "buy", "Coffee") }
CombatEquips == {"coffee"}

NextCombat ==
    \/ nextPlayer = 0 /\ Connect
    \/ \E pid \in AdmittedIds, d \in CombatDirections, sp \in CombatDraws :
          MoveStart(pid, d, sp) /\ spawnCalls' <= CombatSpawns
    \/ \E m \in DOMAIN pending, profile \in CombatProfiles : ProfileReturn(m, profile)
    \/ \E pid \in AdmittedIds, t \in CombatTargets : Attack(pid, t)
    \/ \E pid \in AdmittedIds, c \in CombatTalks : Talk(pid, c.target, c.action, c.item)
    \/ \E pid \in AdmittedIds, it \in CombatEquips : Equip(pid, it)

SpecCombat == Init /\ [][NextCombat]_vars

----------------------------------------------------------------------------
(* Parsing specification: one session sends payloads, well formed and not *)

WellFormedPayloads ==
    { Json([type |-> JStr("look")]),
      Json([type |-> JStr("say"), message |-> JStr("hi")]),
      Json([type |-> JStr("move"), direction |-> JStr("up")]),
      Json([type |-> JStr("move"), direction |-> JStr("down")]),
      Json([type |-> JStr("say"), message |-> JStr("  ")]),
      Json([type |-> JStr("setName"), name |-> JStr("Neo")]),
      Json([type |-> JStr("attack"), target |-> JStr("bob")]),
      Json([type |-> JStr("status")]),
      Json([type |-> JStr("topup")]),
      Json([type |-> JStr("equip"), item |-> JStr("coffee")]),
      Json([type |-> JStr("unequip")]),
      Json([type |-> JStr("unequip"), slot |-> JStr("weapon")]),
      Json([type |-> JStr("talk"), target |-> JStr("chet")]),
      Json([type |-> JStr("talk"), target |-> JStr("chet"), action |-> JStr("buy"),
            item |-> JStr("Coffee")]) }

IllFormedPayloads ==
    { NotJson, JsonNumber, JsonNull,
      Json([message |-> JStr("hi")]),
      Json([type |-> JNum]),
      Json([type |-> JStr("dance")]),
      Json([type |-> JStr("inventory")]),
      Json([type |-> JStr("say"), message |-> JNum]),
      Json([type |-> JStr("move")]),
      Json([type |-> JStr("setName"), name |-> JNum]),
      Json([type |-> JStr("attack")]),
      Json([type |-> JStr("equip"), item |-> JNum]),
      Json([type |-> JStr("unequip"), slot |-> JStr("ring")]),
      Json([type |-> JStr("unequip"), slot |-> JNum]),
      Json([type |-> JStr("talk"), target |-> JNum]),
      Json([type |-> JStr("talk"), target |-> JStr("chet"), action |-> JStr("dance")]),
      Json([type |-> JStr("talk"), target |-> JStr("chet"), action |-> JNum]),
      Json([type |-> JStr("talk"), target |-> JStr("chet"), action |-> JStr("buy"),
            item |-> JNum]) }

Payloads == WellFormedPayloads \cup IllFormedPayloads
ParseDraws == { Draw(FALSE, NORMIE_MIN_HEALTH, 0) }

NextParse ==
    \/ nextPlayer = 0 /\ Connect
    \/ \E pid \in AdmittedIds, raw \in Payloads, sp \in ParseDraws : Message(pid, raw, sp)

SpecParse == Init /\ [][NextParse]_vars

----------------------------------------------------------------------------
(* Session specification: sessions come and go while they talk and move *)
(* through exits that are materialized                                   *)

SessionDirections == {"south", "up"}
SessionDraws == { Draw(FALSE, NORMIE_MIN_HEALTH, 0) }
SessionOutcomes == { GenRejects, GenReturns(<<CandBack>>) }
SessionWords == {"hi"}

NextSession ==
    \/ Connect
    \/ \E pid \in AdmittedIds : Close(pid)
    \/ \E pid \in AdmittedIds, d \in SessionDirections, sp \in SessionDraws :
          MoveStart(pid, d, sp)
    \/ \E m \in DOMAIN pending, out \in SessionOutcomes, sp \in SessionDraws :
          GenReturn(m, out, sp)
    \/ \E pid \in AdmittedIds, w \in SessionWords : Say(pid, w)

SpecSession == Init /\ [][NextSession]_vars

----------------------------------------------------------------------------
(* Crowd specification: two sessions walk between the hub and the vault  *)
(* while the NPC-profile generator answers late, so that several moves   *)
(* into a room are suspended on it together                              *)

CrowdDirections == {"up", "down"}
CrowdDraws == { Draw(FALSE, NORMIE_MIN_HEALTH, 0), Draw(TRUE, NORMIE_MIN_HEALTH, 0) }
CrowdProfiles == {"reject", "Bob"}

NextCrowd ==
    \/ Connect
    \/ \E pid \in AdmittedIds, d \in CrowdDirections, sp \in CrowdDraws : MoveStart(pid, d, sp)
    \/ \E m \in DOMAIN pending, profile \in CrowdProfiles : ProfileReturn(m, profile)

SpecCrowd == Init /\ [][NextCrowd]_vars

----------------------------------------------------------------------------
(* Frontier specification: two sessions explore rooms whose exits the    *)
(* content generator declared with target ids of its own                 *)

FrontierDirections == {"north", "south"}
FrontierOutcomes == { GenReturns(<< CandGhost >>), GenReturns(<< CandBack >>) }
FrontierDraws == { Draw(FALSE, NORMIE_MIN_HEALTH, 0) }

NextFrontier ==
    \/ Connect
    \/ \E pid \in AdmittedIds, d \in FrontierDirections, sp \in FrontierDraws :
          MoveStart(pid, d, sp)
    \/ \E m \in DOMAIN pending, out \in FrontierOutcomes, sp \in FrontierDraws :
          GenReturn(m, out, sp)

SpecFrontier == Init /\ [][NextFrontier]_vars

----------------------------------------------------------------------------
(* Chat specification: two sessions walk between the hub and the vault   *)
(* and talk; naming specification: they walk and rename themselves       *)

\* n copies of the string
RECURSIVE Repeat(_, _)
Repeat(s, n) ==
    IF n = 0 THEN ""
    ELSE IF n % 2 = 0 THEN LET half == Repeat(s, n \div 2) IN half \o half
    ELSE s \o Repeat(s, n - 1)

ChatDirections == {"up", "down"}
ChatDraws == { Draw(FALSE, NORMIE_MIN_HEALTH, 0) }
\* messages a client sends: plain, blank, padded, and padded with more than
\* 512 characters between the pads
ChatWords == {"hi", "  ", " hi there ", "  " \o Repeat("x", 520) \o " "}
\* names a client sends: plain, padded, longer than 32 characters, the name
\* of the vendor and the name another session starts with
ChatNames == {"Neo", " Neo ", Repeat("n", 40), "Chet", "Wanderer-2"}

NextChat ==
    \/ Connect
    \/ \E pid \in AdmittedIds, d \in ChatDirections, sp \in ChatDraws : MoveStart(pid, d, sp)
    \/ \E pid \in AdmittedIds, w \in ChatWords : Say(pid, w)

SpecChat == Init /\ [][NextChat]_vars

NextNames ==
    \/ Connect
    \/ \E pid \in AdmittedIds, d \in ChatDirections, sp \in ChatDraws : MoveStart(pid, d, sp)
    \/ \E pid \in AdmittedIds, n \in ChatNames : SetName(pid, n)

SpecNames == Init /\ [][NextNames]_vars

----------------------------------------------------------------------------
(* Fault specification: one session trades in the hub until its pack is   *)
(* full while another explores exits that collapse, lead nowhere or are   *)
(* blocked; the explorer attacks what is not there and sends payloads     *)
(* that do not parse                                                      *)

FaultTraders == {"p-1"}
FaultMovers == {"p-2"}
FaultOutcomes == { GenRejects, GenReturns(<< >>), GenReturns(<< CandGhost >>) }
FaultDraws == { Draw(FALSE, NORMIE_MIN_HEALTH, 0) }
FaultPayloads == { NotJson, Json([type |-> JStr("dance")]) }

NextFaults ==
    \/ Connect
    \/ \E pid \in AdmittedIds \cap FaultTraders : Topup(pid)
    \/ \E pid \in AdmittedIds \cap FaultTraders, c \in TradeTalks :
          Talk(pid, c.target, c.action, c.item)
    \/ \E pid \in AdmittedIds \cap FaultTraders, it \in TradeEquips : Equip(pid, it)
    \/ \E pid \in AdmittedIds \cap FaultTraders, sl \in UnequipSlots : Unequip(pid, sl)
    \/ \E pid \in AdmittedIds \cap FaultMovers, t \in CombatTargets : Attack(pid, t)
    \/ \E pid \in AdmittedIds \cap FaultMovers, d \in FrontierDirections, sp \in FaultDraws :
          MoveStart(pid, d, sp) /\ genCalls' <= FaultGenCalls
    \/ \E m \in DOMAIN pending, out \in FaultOutcomes, sp \in FaultDraws :
          GenReturn(m, out, sp)
    \/ \E pid \in AdmittedIds \cap FaultMovers, raw \in FaultPayloads, sp \in FaultDraws :
          Message(pid, raw, sp)

SpecFaults == Init /\ [][NextFaults]_vars

----------------------------------------------------------------------------
(* Brawl specification: two sessions walk between the hub and the vault   *)
(* and attack the normies that appear, which may bear the same name       *)

BrawlDirections == {"up", "down"}
BrawlDraws == { Draw(FALSE, NORMIE_MIN_HEALTH, 0), Draw(TRUE, NORMIE_MIN_HEALTH, 5) }
BrawlProfiles == {"Bob"}
BrawlTargets == {"bob"}

NextBrawl ==
    \/ Connect
    \/ \E pid \in AdmittedIds, d \in BrawlDirections, sp \in BrawlDraws :
          MoveStart(pid, d, sp) /\ spawnCalls' <= BrawlSpawns
    \/ \E m \in DOMAIN pending, profile \in BrawlProfiles : ProfileReturn(m, profile)
    \/ \E pid \in AdmittedIds, t \in BrawlTargets : Attack(pid, t)

SpecBrawl == Init /\ [][NextBrawl]_vars

----------------------------------------------------------------------------
(* Arms specification: one session buys the weapon, takes it in hand and  *)
(* puts it away again, and fights a Normie with whatever it holds         *)

ArmsTalks == { TalkCmd("chet", "buy", "Broken Ledger") }
ArmsEquips == {"broken ledger"}
ArmsSlots == {Undefined, "weapon"}
ArmsDraws == { Draw(FALSE, NORMIE_MIN_HEALTH, 0), Draw(TRUE, NORMIE_MAX_HEALTH, 0) }
ArmsProfiles == {"Bob"}
ArmsTargets == {"bob"}

NextArms ==
    \/ nextPlayer = 0 /\ Connect
    \/ \E pid \in AdmittedIds : Topup(pid) /\ topups' <= ArmsTopups
    \/ \E pid \in AdmittedIds, c \in ArmsTalks : Talk(pid, c.target, c.action, c.item)
    \/ \E pid \in AdmittedIds, it \in ArmsEquips : Equip(pid, it)
    \/ \E pid \in AdmittedIds, sl \in ArmsSlots : Unequip(pid, sl)
    \/ \E pid \in AdmittedIds, d \in CombatDirections, sp \in ArmsDraws :
          MoveStart(pid, d, sp) /\ spawnCalls' <= ArmsSpawns
    \/ \E m \in DOMAIN pending, profile \in ArmsProfiles : ProfileReturn(m, profile)
    \/ \E pid \in AdmittedIds, t \in ArmsTargets : Attack(pid, t)

SpecArms == Init /\ [][NextArms]_vars

----------------------------------------------------------------------------
(* Purse specification: one session earns creds by a top-up and by loot   *)
(* and spends them on the cheapest drink until its pack is full           *)

PurseTalks == { TalkCmd("chet", "buy", "Monster") }
PurseDraws == { Draw(FALSE, NORMIE_MIN_HEALTH, 0), Draw(TRUE, NORMIE_MIN_HEALTH, 5) }
PurseProfiles == {"Bob"}
PurseTargets == {"bob"}

NextPurse ==
    \/ nextPlayer = 0 /\ Connect
    \/ \E pid \in AdmittedIds : Topup(pid) /\ topups' <= PurseTopups
    \/ \E pid \in AdmittedIds, c \in PurseTalks : Talk(pid, c.target, c.action, c.item)
    \/ \E pid \in AdmittedIds, d \in CombatDirections, sp \in PurseDraws :
          MoveStart(pid, d, sp) /\ spawnCalls' <= PurseSpawns
    \/ \E m \in DOMAIN pending, profile \in PurseProfiles : ProfileReturn(m, profile)
    \/ \E pid \in AdmittedIds, t \in PurseTargets : Attack(pid, t)

SpecPurse == Init /\ [][NextPurse]_vars

----------------------------------------------------------------------------
(* Atlas specification: two sessions explore rooms whose exits name rooms *)
(* that do not exist, while normies appear in the rooms they enter        *)

AtlasDraws == { Draw(FALSE, NORMIE_MIN_HEALTH, 0), Draw(TRUE, NORMIE_MIN_HEALTH, 0) }
AtlasProfiles == {"reject", "Bob"}

NextAtlas ==
    \/ Connect
    \/ \E pid \in AdmittedIds, d \in FrontierDirections, sp \in AtlasDraws :
          MoveStart(pid, d, sp) /\ spawnCalls' <= AtlasSpawns
    \/ \E m \in DOMAIN pending, out \in FrontierOutcomes, sp \in AtlasDraws :
          GenReturn(m, out, sp) /\ spawnCalls' <= AtlasSpawns
    \/ \E m \in DOMAIN pending, profile \in AtlasProfiles : ProfileReturn(m, profile)

SpecAtlas == Init /\ [][NextAtlas]_vars

----------------------------------------------------------------------------
(* Properties of exit materialization, checked under SpecWorld *)

\* how many copies of continuation m are suspended
Cnt(pend, m) == IF m \in DOMAIN pend THEN pend[m] ELSE 0

\* where a move from room R in direction d would lead: the target of the
\* first exit of R with that direction, Null when there is none or it is unset
TargetOf(rs, R, d) ==
    LET i == FindExit(rs[R].exits, d)
    IN IF i = 0 THEN Null ELSE rs[R].exits[i].targetRoomId

\* a move from R in direction d is suspended on the content generator
GenInFlight(pend, R, d) ==
    \E m \in DOMAIN pend : m.phase = "gen" /\ m.from = R /\ m.direction = d

\* the step resumed continuation m and the generator had answered with a room
ResumedWithRoom(m) ==
    /\ m.phase = "gen"
    /\ Cnt(pending', m) < Cnt(pending, m)
    /\ last'.step = "GenReturn"
    /\ last'.res # "genFailed"

\* the mover of the step is on its way to room T: relocated, or suspended on
\* the NPC-profile generator with T as its destination
HeadsTo(pid, T) ==
    \/ last'.res = "moved" /\ players'[pid].roomId = T
    \/ /\ last'.res = "awaitProfile"
       /\ \E q \in DOMAIN pending' :
            /\ q.phase = "profile" /\ q.pid = pid /\ q.target = T
            /\ Cnt(pending', q) > Cnt(pending, q)

\* C1: once a move from R in direction d has materialized the exit and no
\* move through that exit is suspended on the generator, the exit keeps its
\* target, every later move from R in direction d heads to that same target
\* without a generator call and without a new room, and a move suspended on
\* the profile generator ends in the room it was heading to.
C1_SequentialIdempotence ==
    [][ /\ \A R \in DOMAIN rooms, d \in MoveDirections :
            (TargetOf(rooms, R, d) \in DOMAIN rooms /\ ~GenInFlight(pending, R, d)) =>
                /\ TargetOf(rooms', R, d) = TargetOf(rooms, R, d)
                /\ ~GenInFlight(pending', R, d)
                /\ (last'.step = "MoveStart" /\ last'.room = R /\ last'.arg = d) =>
                      /\ genCalls' = genCalls
                      /\ rooms' = rooms
                      /\ HeadsTo(last'.pid, TargetOf(rooms, R, d))
        /\ \A m \in DOMAIN pending :
            (m.phase = "profile" /\ Cnt(pending', m) < Cnt(pending, m)) =>
                /\ players'[m.pid].roomId = m.target
                /\ genCalls' = genCalls
                /\ rooms' = rooms
      ]_vars

\* C1 witness: one generator call in all, and both sessions went through the
\* materialized exit into the generated room
C1_Witness ==
    /\ genCalls = 1
    /\ DOMAIN rooms = {"hub-1", "vault-1", "room-1"}
    /\ DOMAIN players = {"p-1", "p-2"}
    /\ \A p \in DOMAIN players : players[p].roomId = "room-1"
    /\ last.step = "MoveStart" /\ last.res = "moved" /\ last.room = "hub-1"

\* C2: no room has two exits with the same direction
C2_ExitDirectionsUnique ==
    \A R \in DOMAIN rooms :
        \A i, j \in 1..Len(rooms[R].exits) :
            i # j => rooms[R].exits[i].direction # rooms[R].exits[j].direction

\* C3 as claimed: once an exit's target holds a room id, no step writes a
\* different value into it
C3_TargetWrittenOnce ==
    [][ \A R \in DOMAIN rooms :
          \A i \in 1..Len(rooms[R].exits) :
             rooms[R].exits[i].targetRoomId # Null =>
                rooms'[R].exits[i].targetRoomId = rooms[R].exits[i].targetRoomId
      ]_vars

\* continuations suspended on the generator that hold exit i of room R
HoldersOf(pend, R, i) ==
    {m \in DOMAIN pend : m.phase = "gen" /\ m.from = R /\ m.exitIdx = i}

\* C3 amended: a set target is never unset again, no new materialization is
\* started on an exit whose target is set, and a set target changes only in
\* a step that resumes a move that was suspended on the generator holding
\* that same exit; with no such move suspended the target stays as written.
C3_TargetOverwrittenOnlyByHolder ==
    [][ \A R \in DOMAIN rooms :
          \A i \in 1..Len(rooms[R].exits) :
             rooms[R].exits[i].targetRoomId # Null =>
                /\ rooms'[R].exits[i].targetRoomId # Null
                /\ \A m \in HoldersOf(pending', R, i) : Cnt(pending', m) <= Cnt(pending, m)
                /\ rooms'[R].exits[i].targetRoomId # rooms[R].exits[i].targetRoomId =>
                      \E m \in HoldersOf(pending, R, i) : ResumedWithRoom(m)
      ]_vars

\* C3 witness: the hub's north exit was written twice; room-1, the first
\* value, is in the table but the exit now holds room-2
C3_Witness ==
    /\ {"room-1", "room-2"} \subseteq DOMAIN rooms
    /\ rooms["hub-1"].exits[1].targetRoomId = "room-2"
    /\ \A R \in DOMAIN rooms : \A i \in 1..Len(rooms[R].exits) :
          rooms[R].exits[i].targetRoomId # "room-1"

\* C4: when a move suspended on the generator is resumed with a room, a room
\* is inserted under an id that was not in the table, the mover heads to
\* exactly that room, and every other suspended move stays suspended; every
\* player is bound to, and every suspended move heads to, a room in the table.
C4_BothMaterializationsComplete ==
    [][ /\ \A m \in DOMAIN pending :
            ResumedWithRoom(m) =>
                \E new \in DOMAIN rooms' \ DOMAIN rooms :
                    /\ DOMAIN rooms' = DOMAIN rooms \cup {new}
                    /\ HeadsTo(m.pid, new)
                    /\ \A o \in DOMAIN pending :
                          o # m => Cnt(pending', o) = Cnt(pending, o)
        /\ \A p \in DOMAIN players' : players'[p].roomId \in DOMAIN rooms'
        /\ \A q \in DOMAIN pending' : q.phase = "profile" => q.target \in DOMAIN rooms'
      ]_vars

\* C4 witness: two moves through the hub's unset north exit were suspended
\* together, both got a room, and each mover is in its own room
C4_Witness ==
    /\ C3_Witness
    /\ DOMAIN players = {"p-1", "p-2"}
    /\ {players[p].roomId : p \in DOMAIN players} = {"room-1", "room-2"}

\* C5: last writer wins; after each successful materialization from room R
\* in direction d, a move from R in direction d leads to the room that
\* materialization inserted
C5_LastWriterWins ==
    [][ \A m \in DOMAIN pending :
          ResumedWithRoom(m) =>
              TargetOf(rooms', m.from, m.direction) \in DOMAIN rooms' \ DOMAIN rooms
      ]_vars

\* C6: a failed generator call sends the mover one error event and changes
\* neither the room table (exits included) nor any binding nor the NPCs; and
\* a move through a direction that is absent or unset always calls the
\* generator, so the next attempt retries.
C6_GeneratorFailureLeavesWorld ==
    [][ /\ (last'.step = "GenReturn" /\ last'.res = "genFailed") =>
              /\ rooms' = rooms
              /\ players' = players
              /\ npcs' = npcs
              /\ Len(sent') = 1
              /\ sent'[1].to = last'.pid /\ sent'[1].type = "error"
              /\ \E m \in DOMAIN pending :
                    /\ m.phase = "gen" /\ m.pid = last'.pid
                    /\ Cnt(pending', m) < Cnt(pending, m)
        /\ \A p \in DOMAIN players, d \in MoveDirections :
              ( /\ last'.step = "MoveStart" /\ last'.pid = p /\ last'.arg = d
                /\ TargetOf(rooms, players[p].roomId, d) = Null ) =>
                    /\ genCalls' = genCalls + 1
                    /\ last'.res = "awaitGen"
      ]_vars

\* C6 witness: a generator call failed, the exit is still unset, and the
\* same session's retry is suspended on a second generator call
C6_Witness ==
    /\ genCalls = 2
    /\ nextRoom = 0
    /\ rooms = createInitialWorld
    /\ last.step = "MoveStart" /\ last.res = "awaitGen"
    /\ \E m \in DOMAIN pending : m.phase = "gen" /\ pending[m] = 1 /\ m.pid = last.pid
    /\ Cardinality(DOMAIN pending) = 1

----------------------------------------------------------------------------
(* Properties of trade and equipment, checked under SpecTrade *)

NonEmptySlots(inv) == Cardinality({i \in DOMAIN inv.items : inv.items[i] # Null})
SlotsInUse(inv) ==
    NonEmptySlots(inv) + (IF inv.armor # Null THEN 1 ELSE 0)
                       + (IF inv.weapon # "fist" THEN 1 ELSE 0)

\* C7 as stated: for every player, the non-empty item slots plus one for
\* equipped armor plus one for a weapon other than the fist never exceed the
\* capacity of 20.
C7_SlotCountWithinCapacity ==
    \A p \in DOMAIN players : SlotsInUse(players[p].inventory) <= InventorySlots

\* C7 amended: the item array keeps its 20 slots, so the non-empty item slots
\* never exceed 20; the weapon slot lies outside the array and the armor slot
\* stays empty, so the count of the claim never exceeds 21.
C7_SlotCountWithinCapacityPlusWeapon ==
    \A p \in DOMAIN players :
        /\ Len(players[p].inventory.items) = InventorySlots
        /\ NonEmptySlots(players[p].inventory) <= InventorySlots
        /\ players[p].inventory.armor = Null
        /\ SlotsInUse(players[p].inventory) <= InventorySlots + 1

\* a full pack with a weapon in hand: 21 in use
C7_Witness ==
    \E p \in DOMAIN players :
        /\ NonEmptySlots(players[p].inventory) = InventorySlots
        /\ players[p].inventory.weapon = "Broken Ledger"
        /\ last.step = "Talk" /\ last.res = "bought"

ItemNames == {BROKEN_LEDGER.name, COFFEE.name, MONSTER.name, MATE.name}
Occurrences(inv, n) ==
    Cardinality({i \in DOMAIN inv.items : inv.items[i] = n})
        + (IF inv.weapon = n THEN 1 ELSE 0) + (IF inv.armor = n THEN 1 ELSE 0)

FailedBuy == {"tooPoor", "packFull", "notCarried", "buyWhat"}

\* C9: a buy that fails (too few creds, no free slot, item not in the stock,
\* no item named) sends one error event to the buyer and leaves the buyer's
\* creds, the vendor's creds and the buyer's inventory as they were.
C9_FailedBuyChangesNothing ==
    [][(last'.step = "Talk" /\ last'.res \in FailedBuy) =>
          /\ players' = players
          /\ npcs' = npcs
          /\ Len(sent') = 1
          /\ sent'[1].to = last'.pid
          /\ sent'[1].type = "error"]_vars

\* a buy refused for a full pack by a buyer who could pay
C9_Witness ==
    /\ last.step = "Talk" /\ last.res = "packFull"
    /\ last.pid \in DOMAIN players
    /\ players[last.pid].creds >= BROKEN_LEDGER.cost
    /\ ~HasFreeSlot(players[last.pid].inventory)

----------------------------------------------------------------------------
(* Properties of combat, checked under SpecCombat *)

HealthInRange ==
    /\ \A p \in DOMAIN players : players[p].health \in 0..PLAYER_MAX_HEALTH
    /\ \A n \in DOMAIN npcs : npcs[n].health \in 0..PLAYER_MAX_HEALTH

\* C10: the health of every player and of every NPC stays within 0..100, and
\* an attack with its retaliation never raises the health of a player or of
\* an NPC.
C10_HealthBoundedAndAttackNeverHeals ==
    [][/\ HealthInRange
       /\ HealthInRange'
       /\ last'.step = "Attack" =>
            /\ \A p \in DOMAIN players \cap DOMAIN players' :
                   players'[p].health <= players[p].health
            /\ \A n \in DOMAIN npcs \cap DOMAIN npcs' :
                   npcs'[n].health <= npcs[n].health]_vars

\* a normie of 15 health fell to the second blow of a fist (15, 5, 0) after
\* striking back once, and its loot was collected
C10_Witness ==
    /\ last.step = "Attack" /\ last.res = "defeated"
    /\ players[last.pid].health = PLAYER_MAX_HEALTH - NORMIE_ATTACK_RATING
    /\ players[last.pid].attackRating = FIST_ATTACK_RATING
    /\ players[last.pid].creds = 5
    /\ last.arg \notin DOMAIN npcs

----------------------------------------------------------------------------
(* Properties of the connection lifecycle *)

\* C11: an admission creates the player in the hub with health 100, attack
\* rating 10, no creds, the fist, no armor and 20 empty item slots, and the
\* first event the session receives is the welcome carrying that player and
\* the hub room; the arrival notice for the admission comes after it.
C11_AdmissionWelcomesFirst ==
    [][last'.step = "Connect" =>
          LET pid == last'.pid
          IN /\ pid \notin DOMAIN players
             /\ pid \notin connections
             /\ pid \in connections'
             /\ players'[pid].roomId = "hub-1"
             /\ players'[pid].health = 100
             /\ players'[pid].attackRating = 10
             /\ players'[pid].creds = 0
             /\ players'[pid].inventory.weapon = "fist"
             /\ players'[pid].inventory.armor = Null
             /\ Len(players'[pid].inventory.items) = 20
             /\ \A i \in 1..20 : players'[pid].inventory.items[i] = Null
             /\ Len(sent') >= 2
             /\ sent'[1].to = pid
             /\ sent'[1].type = "welcome"
             /\ sent'[1].arg.player = players'[pid]
             /\ sent'[1].arg.room = rooms'["hub-1"]
             /\ \E i \in 2..Len(sent') : sent'[i].to = pid /\ sent'[i].msg = "fadesIn"
             /\ \A i \in 2..Len(sent') : sent'[i].msg = "fadesIn" /\ sent'[i].arg = pid]_vars

\* the second session is admitted while the first is in the hub: a welcome
\* and two arrival notices
C11_Witness ==
    /\ last.step = "Connect" /\ last.pid = "p-2"
    /\ Len(sent) = 3
    /\ sent[1].type = "welcome" /\ sent[1].to = "p-2"
    /\ sent[2].to = "p-1" /\ sent[3].to = "p-2"

----------------------------------------------------------------------------
(* Properties of one move on its own, checked under SpecWorld *)

\* the move m is the only command in flight
OnlyInFlight(m) == DOMAIN pending = {m} /\ pending[m] = 1

\* the mover is described the room T in the events of the step
DescribedTo(pid, T, events) ==
    \E i \in 1..Len(events) :
        /\ events[i].to = pid
        /\ events[i].type = "roomDescription"
        /\ events[i].arg.room = T

DirectionCount(exits, d) == Cardinality({i \in 1..Len(exits) : exits[i].direction = d})

\* C12: a move in a direction the room has no exit for, with a generator that
\* succeeds and no other command in flight, calls the generator once, inserts
\* one room under a new id built from the first candidate, gives the origin
\* one exit for the direction that targets the new room, relocates the mover
\* there and sends the mover the description of the new room.
C12_MoveMaterializesOneRoom ==
    [][/\ (/\ last'.step = "MoveStart" /\ last'.res = "awaitGen"
           /\ DOMAIN pending = {}
           /\ FindExit(rooms[last'.room].exits, last'.arg) = 0)
          => /\ genCalls' = genCalls + 1
             /\ rooms' = rooms
             /\ \E m \in DOMAIN pending' :
                   /\ OnlyInFlight(m)'
                   /\ m.phase = "gen" /\ m.pid = last'.pid
                   /\ m.from = last'.room /\ m.direction = last'.arg
       /\ \A m \in DOMAIN pending :
            (/\ OnlyInFlight(m) /\ m.phase = "gen"
             /\ last'.step = "GenReturn" /\ last'.res \in {"moved", "awaitProfile"}
             /\ FindExit(rooms[m.from].exits, m.direction) = 0)
            => LET new == NewRoomId(nextRoom)
               IN /\ genCalls' = genCalls
                  /\ new \notin DOMAIN rooms
                  /\ DOMAIN rooms' = DOMAIN rooms \cup {new}
                  /\ \E out \in GenOutcomes :
                        /\ out.ok /\ Len(out.newRooms) > 0
                        /\ rooms'[new].name = out.newRooms[1].name
                        /\ rooms'[new].exits = out.newRooms[1].exits
                  /\ \A r \in DOMAIN rooms \ {m.from} : rooms'[r] = rooms[r]
                  /\ rooms'[m.from].exits =
                        Append(rooms[m.from].exits, Exit(m.direction, new))
                  /\ DirectionCount(rooms'[m.from].exits, m.direction) = 1
                  /\ last'.res = "moved" =>
                        /\ players'[m.pid].roomId = new
                        /\ DescribedTo(m.pid, new, sent')
                        /\ DOMAIN pending' = {}
                  /\ last'.res = "awaitProfile" =>
                        \E k \in DOMAIN pending' :
                            /\ OnlyInFlight(k)'
                            /\ k.phase = "profile" /\ k.pid = m.pid /\ k.target = new
       /\ \A m \in DOMAIN pending :
            (/\ OnlyInFlight(m) /\ m.phase = "profile"
             /\ last'.step = "ProfileReturn")
            => /\ m.target \in DOMAIN rooms
               /\ rooms' = rooms /\ genCalls' = genCalls
               /\ players'[m.pid].roomId = m.target
               /\ DescribedTo(m.pid, m.target, sent')]_vars

\* the first move south from the hub has completed in the room it created
C12_Witness ==
    /\ last.step = "GenReturn" /\ last.res = "moved"
    /\ last.room = "hub-1" /\ last.arg = "south"
    /\ genCalls = 1 /\ nextRoom = 1
    /\ DOMAIN pending = {}
    /\ players[last.pid].roomId = NewRoomId(0)
    /\ DirectionCount(rooms["hub-1"].exits, "south") = 1

----------------------------------------------------------------------------
(* Properties of an attack, checked under SpecCombat *)

\* the step was an attack that found its normie
Struck == last'.step = "Attack" /\ last'.res \in {"defeated", "retaliated"}

LootEvents(events, pid) ==
    {i \in 1..Len(events) : events[i].to = pid /\ events[i].msg = "loot"}

\* C13: an attack that brings a normie to health 0 removes it from the NPC
\* directory in the same command, adds exactly its creds to the attacker (with
\* a loot message to the attacker only when that amount is positive) and
\* leaves the attacker's health alone; the normie falls exactly when the
\* attack rating reaches its health, so rating 10 against health 15 leaves 5
\* and the second attack removes it.
C13_DefeatRemovesAndLoots ==
    [][Struck =>
          LET pid == last'.pid
              id == last'.arg
              left == npcs[id].health - players[pid].attackRating
          IN /\ npcs[id].npcClass = "normie"
             /\ (left <= 0) <=> (last'.res = "defeated")
             /\ last'.res = "retaliated" =>
                   /\ id \in DOMAIN npcs'
                   /\ npcs'[id].health = left
             /\ (players[pid].attackRating = 10 /\ npcs[id].health = 15) =>
                   /\ id \in DOMAIN npcs' /\ npcs'[id].health = 5
             /\ (players[pid].attackRating = 10 /\ npcs[id].health = 5) =>
                   id \notin DOMAIN npcs'
             /\ last'.res = "defeated" =>
                   /\ DOMAIN npcs' = DOMAIN npcs \ {id}
                   /\ \A n \in DOMAIN npcs' : npcs'[n] = npcs[n]
                   /\ players'[pid].creds = players[pid].creds + npcs[id].creds
                   /\ players'[pid].health = players[pid].health
                   /\ (LootEvents(sent', pid) # {}) <=> (npcs[id].creds > 0)
                   /\ \A i \in LootEvents(sent', pid) : sent'[i].arg = npcs[id].creds]_vars

\* the second blow of a fist removed a normie that carried 5 creds, and the
\* attacker was told of the loot
C13_Witness ==
    /\ last.step = "Attack" /\ last.res = "defeated"
    /\ last.arg \notin DOMAIN npcs
    /\ players[last.pid].creds = 5
    /\ \E i \in LootEvents(sent, last.pid) : sent[i].arg = 5

\* every kind of command is open to the player
CanCommand(p) ==
    /\ ENABLED Attack(p, "bob")
    /\ ENABLED Talk(p, "chet", "list", Undefined)
    /\ ENABLED Equip(p, "coffee")
    /\ ENABLED Unequip(p, "weapon")
    /\ \E d \in CombatDirections : ENABLED MoveStart(p, d, Draw(FALSE, NORMIE_MIN_HEALTH, 0))

\* C14: when the attacked normie survives, the attacker's health becomes
\* max(0, health - the normie's attack rating) in the same command, the normie
\* stays in the directory and no creds move; an attack removes or relocates no
\* player, and a player whose health is 0 can still issue every command.
C14_SurvivorStrikesBack ==
    /\ [](\A p \in DOMAIN players : players[p].health = 0 => CanCommand(p))
    /\ [][/\ last'.step = "Attack" =>
                /\ DOMAIN players' = DOMAIN players
                /\ \A p \in DOMAIN players : players'[p].roomId = players[p].roomId
          /\ (Struck /\ last'.res = "retaliated") =>
                LET pid == last'.pid
                    id == last'.arg
                    after == players[pid].health - npcs[id].attackRating
                IN /\ players'[pid].health = IF after < 0 THEN 0 ELSE after
                   /\ DOMAIN npcs' = DOMAIN npcs
                   /\ npcs'[id].health > 0
                   /\ \A n \in DOMAIN npcs : npcs'[n].creds = npcs[n].creds
                   /\ \A p \in DOMAIN players : players'[p].creds = players[p].creds]_vars

\* a player at health 0 was struck again and stays at 0, in the table and in
\* the room
C14_Witness ==
    /\ last.step = "Attack" /\ last.res = "retaliated"
    /\ last.pid \in DOMAIN players
    /\ players[last.pid].health = 0
    /\ players[last.pid].roomId = last.room
    /\ \E i \in 1..Len(sent) : sent[i].msg = "strikesBack" /\ sent[i].arg = 0
    /\ npcs[last.arg].health <= NORMIE_MAX_HEALTH - 2 * FIST_ATTACK_RATING

\* C15: an attack whose target names another player of the room or a vendor
\* of the room is refused with a system event, not an error event, and
\* changes no health, no creds and removes no NPC.
C15_FriendlyTargetsRefusedWithoutError ==
    [][(/\ last'.step = "Attack"
        /\ last'.arg # ""
        /\ \/ OtherPlayersNamed(last'.room, last'.pid, last'.arg) # {}
           \/ findVendorInRoom(npcs, last'.room, last'.arg) # Null)
       => /\ Len(sent') = 1
          /\ sent'[1].to = last'.pid
          /\ sent'[1].type = "system"
          /\ players' = players
          /\ npcs' = npcs]_vars

----------------------------------------------------------------------------
(* Properties of the inbound payloads, checked under SpecParse *)

HasString(x) == x.t = "string"
Optional(x, allowed) == x = JUndef \/ (HasString(x) /\ x.v \in allowed)

\* the command shapes of the protocol: look, say{message}, move{direction},
\* setName{name}, attack{target}, status, talk{target, action?, item?},
\* equip{item}, unequip{slot?}, topup
WellFormed(raw) ==
    /\ raw.json = "object"
    /\ \/ raw.type \in {JStr("look"), JStr("status"), JStr("topup")}
       \/ raw.type = JStr("say") /\ HasString(raw.message)
       \/ raw.type = JStr("move") /\ HasString(raw.direction)
       \/ raw.type = JStr("setName") /\ HasString(raw.name)
       \/ raw.type = JStr("attack") /\ HasString(raw.target)
       \/ raw.type = JStr("equip") /\ HasString(raw.item)
       \/ raw.type = JStr("unequip") /\ Optional(raw.slot, {"weapon", "armor"})
       \/ /\ raw.type = JStr("talk") /\ HasString(raw.target)
          /\ Optional(raw.action, {"list", "buy", "leave"})
          /\ raw.item = JUndef \/ HasString(raw.item)

\* the shapes accepted beyond those: the type "inventory", and a talk whose
\* action or item is not of the expected type
Tolerated(raw) ==
    /\ raw.json = "object"
    /\ \/ raw.type = JStr("inventory")
       \/ raw.type = JStr("talk") /\ HasString(raw.target)

\* a step that answered a payload with the malformed-command error sent
\* that event alone and changed nothing
MalformedChangesNothing ==
    (last'.step = "Message" /\ last'.res = "malformed") =>
        /\ sent' = << Ev(last'.pid, "error", "malformed", Null) >>
        /\ UNCHANGED <<rooms, players, connections, npcs, detached, pending>>

\* C16: a payload that is none of the command shapes, or carries a field of
\* the wrong type (a talk action or item of the wrong type, an unknown type
\* such as "inventory"), is answered with the malformed-command error event
\* and runs no handler, so nothing of the world or the sessions changes.
C16_IllFormedPayloadsRejected ==
    [][/\ \A raw \in Payloads : ~WellFormed(raw) => parseClientCommand(raw) = NoCommand
       /\ MalformedChangesNothing]_vars

\* C16 amended: a payload that is neither one of the command shapes nor
\* tolerated is answered with the malformed-command error event alone and
\* changes nothing; the type "inventory" is handled as status, and a talk with
\* a string target is handled with an action other than list, buy, leave, or
\* an item that is no string, taken as absent.
C16_RejectedUnlessTolerated ==
    [][/\ \A raw \in Payloads :
            /\ (~WellFormed(raw) /\ ~Tolerated(raw)) => parseClientCommand(raw) = NoCommand
            /\ (WellFormed(raw) \/ Tolerated(raw)) => parseClientCommand(raw) # NoCommand
            /\ raw.type = JStr("inventory") => parseClientCommand(raw) = Command("status")
            /\ (raw.type = JStr("talk") /\ HasString(raw.target)) =>
                  parseClientCommand(raw) =
                     [Command("talk") EXCEPT
                        !.target = raw.target.v,
                        !.action = IF HasString(raw.action)
                                      /\ raw.action.v \in {"list", "buy", "leave"}
                                   THEN raw.action.v ELSE Undefined,
                        !.item = IF HasString(raw.item) THEN raw.item.v ELSE Undefined]
       /\ MalformedChangesNothing]_vars

\* a payload was answered with the malformed-command error
C16_Witness ==
    /\ last.step = "Message" /\ last.res = "malformed"
    /\ sent = << Ev(last.pid, "error", "malformed", Null) >>
    /\ last.pid \in DOMAIN players

----------------------------------------------------------------------------
(* Properties of sessions, checked under SpecSession *)

DepartureNotices(events, pid) ==
    {i \in 1..Len(events) : events[i].msg = "dissolves" /\ events[i].arg = pid}

\* C17: the close handler run again for a session leaves the player table
\* and the connection table as the first run left them and sends no second
\* departure notice: a notice for a session is sent only by the step that
\* removes it from the table, and a removed session never returns.
C17_CloseIsIdempotent ==
    [][/\ \A pid \in SessionPool :
            /\ DepartureNotices(sent', pid) # {} =>
                  /\ last'.step = "Close" /\ last'.pid = pid
                  /\ pid \in DOMAIN players /\ pid \notin DOMAIN players'
            /\ (pid \in AdmittedIds /\ pid \notin DOMAIN players) =>
                  pid \notin DOMAIN players' /\ pid \notin connections'
       /\ (last'.step = "Close" /\ last'.pid \notin DOMAIN players) =>
             /\ players' = players
             /\ connections' = connections
             /\ sent' = << >>
             /\ UNCHANGED <<rooms, npcs, pending, detached>>]_vars

\* the close handler ran again for a session already removed, while another
\* session stood in the hub it had left
C17_Witness ==
    /\ last.step = "Close" /\ last.res = "absent"
    /\ last.pid \notin DOMAIN players
    /\ sent = << >>
    /\ \E q \in DOMAIN players : players[q].roomId = hubRoom /\ q \in connections

\* C18: the session ids of the player table are those of the connection
\* table in every reachable state; the two entries are created together by
\* an admission and removed together by a disconnection, and no other step
\* adds or removes either.
C18_PlayersAndConnectionsAgree ==
    [][/\ DOMAIN players = connections
       /\ DOMAIN players' = connections'
       /\ (DOMAIN players' # DOMAIN players \/ connections' # connections) =>
             /\ last'.step \in {"Connect", "Close"}
             /\ last'.step = "Connect" =>
                   /\ DOMAIN players' = DOMAIN players \cup {last'.pid}
                   /\ connections' = connections \cup {last'.pid}
             /\ last'.step = "Close" =>
                   /\ DOMAIN players' = DOMAIN players \ {last'.pid}
                   /\ connections' = connections \ {last'.pid}]_vars

\* one session was removed while the other stays, with a move of the
\* removed session still suspended
C18_Witness ==
    /\ last.step = "Close" /\ last.res = "ok"
    /\ DOMAIN players # {}
    /\ DOMAIN players = connections
    /\ last.pid \notin connections
    /\ \E m \in DOMAIN pending : m.pid = last.pid

----------------------------------------------------------------------------
(* Properties of the room table, checked under SpecWorld *)

\* C19: the room table only grows: no step removes a room or renames one, a
\* room is inserted only by a move whose materialization succeeded, one room
\* per such step, and the seeded hub and vault are always present.
C19_RoomTableOnlyGrows ==
    [][/\ {"hub-1", "vault-1"} \subseteq DOMAIN rooms
       /\ {"hub-1", "vault-1"} \subseteq DOMAIN rooms'
       /\ DOMAIN rooms \subseteq DOMAIN rooms'
       /\ \A r \in DOMAIN rooms : rooms'[r].name = rooms[r].name
       /\ (last'.step = "GenReturn" /\ last'.res \in {"moved", "awaitProfile"})
             <=> (DOMAIN rooms' # DOMAIN rooms)
       /\ Cardinality(DOMAIN rooms' \ DOMAIN rooms) <= 1]_vars

\* two rooms were inserted next to the hub and the vault
C19_Witness ==
    /\ DOMAIN rooms = {"hub-1", "vault-1", NewRoomId(0), NewRoomId(1)}
    /\ rooms["hub-1"].name = createInitialWorld["hub-1"].name
    /\ last.step = "GenReturn" /\ last.res = "moved"

----------------------------------------------------------------------------
(* Properties of suspended commands, checked under SpecSession *)

Suspended(pid) == \E m \in DOMAIN pending : m.pid = pid

\* the commands, the disconnection and the admission open to the others
OthersProceed(p) ==
    /\ \A q \in connections \ {p} :
          /\ ENABLED Say(q, "hi")
          /\ ENABLED Close(q)
          /\ \E d \in {"north", "south", "east", "west", "up", "down"} :
                ENABLED MoveStart(q, d, Draw(FALSE, NORMIE_MIN_HEALTH, 0))
    /\ nextPlayer < Cardinality(SessionPool) => ENABLED Connect

\* C20: while a move of one session is suspended on a collaborator call,
\* resolved or not, the commands of every other session, admissions and
\* disconnections are processed and produce their events; only the
\* suspended command is kept waiting, and it stays suspended.
C20_SuspendedMoveBlocksNobody ==
    [][/\ \A p \in SessionPool : Suspended(p) => OthersProceed(p)
       /\ \A m \in DOMAIN pending :
            (last'.pid # m.pid /\ last'.step \in {"Say", "Connect", "Close", "MoveStart"}) =>
               /\ m \in DOMAIN pending' /\ pending'[m] >= pending[m]
               /\ last'.step = "Say" =>
                     \E i \in 1..Len(sent') :
                        sent'[i].to = last'.pid /\ sent'[i].type = "chat"
               /\ last'.step = "Connect" =>
                     sent'[1].to = last'.pid /\ sent'[1].type = "welcome"
               /\ last'.step = "Close" => last'.pid \notin connections'
               /\ \A i \in 1..Len(sent') :
                     sent'[i].to = m.pid =>
                        sent'[i].type \notin {"roomDescription", "error"}]_vars

\* the first session's move is suspended on the generator and the second
\* session has just spoken and been heard by both
C20_Witness ==
    /\ \E m \in DOMAIN pending : m.pid = "p-1" /\ m.phase = "gen"
    /\ last.step = "Say" /\ last.pid = "p-2"
    /\ Len(sent) = 2
    /\ sent[1].type = "chat" /\ sent[2].type = "chat"

----------------------------------------------------------------------------
(* Properties of the spawn policy, checked under SpecCrowd *)

\* the NPCs of class normie bound to the room
NormiesIn(ns, roomId) ==
    {id \in DOMAIN ns : ns[id].roomId = roomId /\ ns[id].npcClass = "normie"}

\* C21: in every reachable state each room holds at most 3 NPCs of class
\* normie, however the moves into the room interleave and however many of
\* them are suspended on the NPC-profile generator together.
C21_AtMostThreeNormiesPerRoom ==
    \A r \in DOMAIN rooms : Cardinality(NormiesIn(npcs, r)) <= MAX_NORMIES_PER_ROOM

\* a draw of the spawn policy that passes the chance
PassingDraw == Draw(TRUE, NORMIE_MIN_HEALTH, 0)

\* the move of the player in the direction, with a passing draw, can call the
\* NPC-profile generator
CanSpawnOnEntering(p, d) ==
    ENABLED (MoveStart(p, d, PassingDraw) /\ last'.res = "awaitProfile")

\* C22: the cap check of the spawn policy counts only the NPCs of class
\* normie of the destination: whenever a player stands before an exit that
\* leads to a room with fewer than 3 normies, a move through it whose draw
\* passes calls the NPC-profile generator, whatever vendors the room holds.
C22_CapCountsOnlyNormies ==
    \A p \in DOMAIN players, d \in CrowdDirections :
        LET T == TargetOf(rooms, players[p].roomId, d)
        IN (/\ T \in DOMAIN rooms
            /\ Cardinality(NormiesIn(npcs, T)) < MAX_NORMIES_PER_ROOM
            /\ spawnCalls < MaxSpawns)
           => CanSpawnOnEntering(p, d)

----------------------------------------------------------------------------
(* Properties of the spawn step of a move, checked under SpecWorld *)

\* the step resumed the move m from the NPC-profile generator, and the call
\* had failed: no NPC id was drawn
ResumedWithoutProfile(m) ==
    /\ m.phase = "profile"
    /\ last'.step = "ProfileReturn"
    /\ Cnt(pending', m) < Cnt(pending, m)
    /\ nextNpc' = nextNpc

ErrorsTo(events, pid) ==
    {i \in 1..Len(events) : events[i].to = pid /\ events[i].type = "error"}

\* C23: when the NPC-profile generator fails during a move, no NPC is added,
\* the mover is sent no error event, and the move completes: the mover is
\* bound to the destination and is sent its roomDescription.
C23_ProfileFailureDoesNotBlockMove ==
    [][\A m \in DOMAIN pending :
          ResumedWithoutProfile(m) =>
             /\ npcs' = npcs
             /\ ErrorsTo(sent', m.pid) = {}
             /\ last'.res = "moved" /\ last'.pid = m.pid
             /\ players'[m.pid].roomId = m.target
             /\ DescribedTo(m.pid, m.target, sent')]_vars

\* the one profile call of the run failed and the mover stands in the room
\* it was heading to, with no NPC but the vendor in the world
C23_Witness ==
    /\ last.step = "ProfileReturn" /\ last.res = "moved"
    /\ spawnCalls = 1 /\ nextNpc = 0
    /\ DOMAIN pending = {}
    /\ DOMAIN npcs = {"npc-vendor-chet"}
    /\ players[last.pid].roomId # last.room
    /\ DescribedTo(last.pid, players[last.pid].roomId, sent)

----------------------------------------------------------------------------
(* Properties of equip and unequip, checked under SpecTrade *)

\* how often the name occurs over the item slots and the weapon slot
InSlotsOrHand(inv, n) ==
    Cardinality({i \in DOMAIN inv.items : inv.items[i] = n})
        + (IF inv.weapon = n THEN 1 ELSE 0)

\* every slot holds a name of the catalog, or nothing
HoldsCatalogNames(inv) ==
    /\ \A i \in DOMAIN inv.items : inv.items[i] \in ItemNames \cup {Null}
    /\ inv.weapon \in ItemNames \cup {"fist"}

\* C24: an equip command for a weapon, whether it succeeds or fails, leaves
\* the multiset of names over the item slots and the non-fist weapon slot as
\* it was; on success the named item is in the weapon slot, the weapon that
\* was in hand (if not the fist) is in an item slot and the attack rating is
\* the catalog rating of the new weapon; on failure the weapon slot and the
\* attack rating are unchanged.
C24_EquipWeaponConservesItems ==
    [][last'.step = "Equip" =>
          LET p == last'.pid
              before == players[p].inventory
              after == players'[p].inventory
          IN /\ HoldsCatalogNames(before) /\ HoldsCatalogNames(after)
             /\ \A n \in ItemNames : InSlotsOrHand(after, n) = InSlotsOrHand(before, n)
             /\ last'.res = "equippedWeapon" =>
                   /\ \E i \in DOMAIN before.items : before.items[i] = last'.arg
                   /\ identifyItem(last'.arg).type = "weapon"
                   /\ after.weapon = last'.arg
                   /\ before.weapon # "fist" =>
                         \E i \in DOMAIN after.items : after.items[i] = before.weapon
                   /\ players'[p].attackRating = ITEM_DEFINITIONS[Lower(last'.arg)].attackRating
             /\ last'.res # "equippedWeapon" =>
                   /\ last'.res \in {"equipWhat", "notInInventory"}
                   /\ after.weapon = before.weapon
                   /\ players'[p].attackRating = players[p].attackRating]_vars

\* of two ledgers bought, the second was equipped while the first was in
\* hand: the first went back to the lowest slot
C24_Witness ==
    /\ last.step = "Equip" /\ last.res = "equippedWeapon"
    /\ topups = 1
    /\ players[last.pid].creds = TOPUP_CREDITS - 2 * BROKEN_LEDGER.cost
    /\ players[last.pid].inventory.weapon = "Broken Ledger"
    /\ players[last.pid].inventory.items[1] = "Broken Ledger"
    /\ players[last.pid].inventory.items[2] = Null
    /\ players[last.pid].attackRating = BROKEN_LEDGER.attackRating

----------------------------------------------------------------------------
(* Properties of consumption, checked under SpecCombat *)

\* C25: equipping an item of catalog category item consumes it: one slot that
\* held it is emptied and nothing is put in the weapon or the armor slot, the
\* health becomes min(100, health + heal amount of the catalog), the amount
\* reported to the player is the difference of the health, and the item is
\* consumed also at health 100, with a reported amount of 0.
C25_EquipItemConsumesAndHeals ==
    [][(last'.step = "Equip" /\ last'.res = "consumed") =>
          LET p == last'.pid
              item == last'.arg
              before == players[p].inventory
              after == players'[p].inventory
              healed == players[p].health + ITEM_DEFINITIONS[Lower(item)].healAmount
          IN /\ ITEM_DEFINITIONS[Lower(item)].type = "item"
             /\ \E i \in DOMAIN before.items :
                   /\ before.items[i] = item
                   /\ after.items = [before.items EXCEPT ![i] = Null]
             /\ after.weapon = before.weapon
             /\ after.armor = before.armor
             /\ players'[p].health = IF healed > 100 THEN 100 ELSE healed
             /\ Len(sent') = 1
             /\ sent'[1].to = p /\ sent'[1].type = "system"
             /\ sent'[1].arg = players'[p].health - players[p].health
             /\ players[p].health = 100 => sent'[1].arg = 0]_vars

\* a coffee was drunk at full health: it is gone and healed nothing
C25_Witness ==
    /\ last.step = "Equip" /\ last.res = "consumed"
    /\ players[last.pid].health = PLAYER_MAX_HEALTH
    /\ Len(sent) = 1 /\ sent[1].arg = 0
    /\ \A i \in DOMAIN players[last.pid].inventory.items :
          players[last.pid].inventory.items[i] = Null
    /\ players[last.pid].inventory.weapon = "fist"

\* C26: unequip of the weapon slot. With the fist in hand the inventory is
\* unchanged and a confirmation is sent. With a weapon in hand and a free
\* item slot, the weapon goes to the lowest free item slot, the weapon slot
\* becomes the fist and the attack rating becomes 10. With a weapon in hand
\* and no free item slot an error is sent and the weapon slot, the attack
\* rating and every item slot are unchanged.
C26_UnequipWeapon ==
    [][(last'.step = "Unequip" /\ last'.arg = "weapon") =>
          LET p == last'.pid
              before == players[p].inventory
              after == players'[p].inventory
              free == {i \in DOMAIN before.items : before.items[i] = Null}
          IN /\ Len(sent') = 1 /\ sent'[1].to = p
             /\ before.weapon = "fist" =>
                   /\ after = before
                   /\ sent'[1].type = "system"
             /\ (before.weapon # "fist" /\ free # {}) =>
                   LET low == CHOOSE i \in free : \A j \in free : i <= j
                   IN /\ after.items = [before.items EXCEPT ![low] = before.weapon]
                      /\ after.weapon = "fist"
                      /\ after.armor = before.armor
                      /\ players'[p].attackRating = 10
                      /\ sent'[1].type = "system"
             /\ (before.weapon # "fist" /\ free = {}) =>
                   /\ after = before
                   /\ players'[p].attackRating = players[p].attackRating
                   /\ sent'[1].type = "error"]_vars

\* with a ledger in hand and twenty in the pack the unequip was refused
C26_Witness ==
    /\ last.step = "Unequip" /\ last.res = "noSpaceForWeapon"
    /\ players[last.pid].inventory.weapon = "Broken Ledger"
    /\ players[last.pid].attackRating = BROKEN_LEDGER.attackRating
    /\ \A i \in DOMAIN players[last.pid].inventory.items :
          players[last.pid].inventory.items[i] = "Broken Ledger"
    /\ sent[1].type = "error"

----------------------------------------------------------------------------
(* Properties of the order of a move, checked under SpecWorld *)

\* the positions of the events with the message
EventsOf(events, msg) == {i \in 1..Len(events) : events[i].msg = msg}

\* the sessions the events are sent to
Recipients(events, idxs) == {events[i].to : i \in idxs}

\* the connected players bound to the room
Audience(pl, conns, roomId) == {q \in DOMAIN pl \cap conns : pl[q].roomId = roomId}

\* the events of a completed move come in the order of the handler: the
\* notices of a spawn, sent while the mover is bound to the old room, then
\* the roomDescription to the mover, which lists the NPC spawned, then the
\* departure notices to the old room, then the arrival notices
MoveStepsInOrder(p, old, T) ==
    LET appear == EventsOf(sent', "normieAppears")
        desc == EventsOf(sent', "roomDescription")
        leaves == EventsOf(sent', "leaves")
        arrives == EventsOf(sent', "arrives")
    IN /\ Cardinality(desc) = 1
       /\ DOMAIN sent' = appear \cup desc \cup leaves \cup arrives
       /\ \A i \in appear, j \in desc : i < j
       /\ \A i \in desc, j \in leaves \cup arrives : i < j
       /\ \A i \in leaves, j \in arrives : i < j
       /\ Recipients(sent', appear) \subseteq Audience(players, connections, T)
       /\ Recipients(sent', desc) = {p}
       /\ Recipients(sent', leaves) = Audience(players', connections, old)
       /\ Recipients(sent', arrives) = Audience(players', connections, T)
       /\ \A i \in desc :
             /\ sent'[i].arg.room = T
             /\ \A id \in DOMAIN npcs' \ DOMAIN npcs :
                   /\ npcs'[id].roomId = T
                   /\ \E k \in 1..Len(sent'[i].arg.otherPlayers) :
                         sent'[i].arg.otherPlayers[k] = id

\* C27: in a successful move the spawn policy runs against the destination
\* while the mover is still bound to the old room, then the binding is
\* updated, then the mover is sent the roomDescription of the destination,
\* then the departure notice goes to the old room and the arrival notice to
\* the destination; the mover does not receive its own departure notice nor,
\* being in the old room, the notice of the spawn, and the roomDescription
\* lists the NPC spawned by this move.
C27_MoveStepsInOrder ==
    [][last'.res = "moved" =>
          LET p == last'.pid
          IN /\ MoveStepsInOrder(p, players[p].roomId, players'[p].roomId)
             /\ p \notin Recipients(sent', EventsOf(sent', "leaves"))
             /\ p \notin Recipients(sent', EventsOf(sent', "normieAppears"))
             /\ p \in Recipients(sent', EventsOf(sent', "arrives"))]_vars

----------------------------------------------------------------------------
(* Properties of exits that lead nowhere, checked under SpecFrontier *)

\* the exit of the room in the direction has a target that is no room
LeadsNowhere(rs, R, d) ==
    /\ FindExit(rs[R].exits, d) # 0
    /\ TargetOf(rs, R, d) # Null
    /\ TargetOf(rs, R, d) \notin DOMAIN rs

\* C28: a move through an exit whose target id has no entry in the room table
\* sends the mover one error event, does not call the content generator,
\* adds no room and leaves the mover's binding and the exit's target as they
\* were.
C28_DanglingExitRefused ==
    [][\A p \in DOMAIN players, d \in FrontierDirections :
          (/\ last'.step = "MoveStart" /\ last'.pid = p /\ last'.arg = d
           /\ LeadsNowhere(rooms, players[p].roomId, d))
          => /\ Len(sent') = 1
             /\ sent'[1].to = p /\ sent'[1].type = "error"
             /\ genCalls' = genCalls
             /\ pending' = pending
             /\ rooms' = rooms
             /\ players' = players
             /\ npcs' = npcs]_vars

\* a move north out of the generated room, whose north exit names a room
\* that was never inserted, was answered with the glitch error
C28_Witness ==
    /\ last.step = "MoveStart" /\ last.res = "glitch"
    /\ last.room \notin {"hub-1", "vault-1"}
    /\ players[last.pid].roomId = last.room
    /\ TargetOf(rooms, last.room, last.arg) = "room-ghost"
    /\ "room-ghost" \notin DOMAIN rooms
    /\ sent[1].type = "error" /\ sent[1].msg = "glitch"

----------------------------------------------------------------------------
(* Properties of say, checked under SpecChat, and of setName, checked *)
(* under SpecNames                                                    *)

\* the character at the position is white space
Blank(w, k) == SubSeq(w, k, k) \in {" ", "\t", "\n", "\r"}

\* how many characters of white space the string starts with, ends with
Leading(w) == Cardinality({k \in 1..Len(w) : \A j \in 1..k : Blank(w, j)})
Trailing(w) == Cardinality({k \in 1..Len(w) : \A j \in (Len(w) - k + 1)..Len(w) : Blank(w, j)})

\* the string without the white space at its ends
Stripped(w) ==
    IF Leading(w) = Len(w) THEN ""
    ELSE SubSeq(w, Leading(w) + 1, Len(w) - Trailing(w))

\* the string cut to its first n characters
CutTo(w, n) == IF Len(w) > n THEN SubSeq(w, 1, n) ELSE w

\* C29: a say command broadcasts one chat event whose message is the input
\* trimmed and cut to at most 512 characters, to exactly the connected players
\* bound to the sender's room at that moment, the sender included, once each,
\* and to no player of another room; a message that is empty after trimming
\* sends no event to anyone. The command changes no state.
C29_SayReachesTheRoom ==
    [][last'.step = "Say" =>
          \E msg \in {CutTo(Stripped(last'.arg), 512)} :
          LET p == last'.pid
              room == Audience(players, connections, players[p].roomId)
          IN /\ Len(msg) <= 512
             /\ players' = players /\ npcs' = npcs /\ rooms' = rooms
             /\ msg = "" => sent' = << >>
             /\ msg # "" =>
                   /\ p \in room
                   /\ Recipients(sent', DOMAIN sent') = room
                   /\ Len(sent') = Cardinality(room)
                   /\ \A i \in DOMAIN sent' :
                         /\ sent'[i].type = "chat"
                         /\ sent'[i].msg = msg
                         /\ sent'[i].arg = p]_vars

\* with the other session in another room, a padded message of more than
\* 512 characters was heard by the sender alone, cut to 512
C29_Witness ==
    /\ last.step = "Say" /\ last.res = "said"
    /\ Len(last.arg) > 512
    /\ Cardinality(DOMAIN players) = 2
    /\ \A q \in DOMAIN players \ {last.pid} : players[q].roomId # players[last.pid].roomId
    /\ Len(sent) = 1
    /\ sent[1].to = last.pid
    /\ sent[1].msg = Repeat("x", 512)

\* C30: a setName command sets the display name to the input with the white
\* space at its ends trimmed and then cut to at most 32 characters, whether
\* or not another player or an NPC carries that name.
C30_SetNameTrimsAndCuts ==
    [][last'.step = "SetName" =>
          /\ players'[last'.pid].name = CutTo(Stripped(last'.arg), 32)
          /\ Len(players'[last'.pid].name) <= 32
          /\ \A q \in DOMAIN players \ {last'.pid} : players'[q] = players[q]]_vars


----------------------------------------------------------------------------
(* Properties of refused commands, checked under SpecFaults *)

\* the events of the step that carry the error type
ErrorEvents(events) == {i \in 1..Len(events) : events[i].type = "error"}

\* C31: a step that answers a command with an error event leaves the room
\* table with all exits, the NPC directory, and every player's room, health,
\* creds, attack rating and inventory as they were, for the issuing player
\* and for every other player.
C31_ErrorChangesNothing ==
    [][ErrorEvents(sent') # {} =>
          /\ rooms' = rooms
          /\ npcs' = npcs
          /\ DOMAIN players' = DOMAIN players
          /\ \A p \in DOMAIN players :
                /\ players'[p].roomId = players[p].roomId
                /\ players'[p].health = players[p].health
                /\ players'[p].creds = players[p].creds
                /\ players'[p].attackRating = players[p].attackRating
                /\ players'[p].inventory = players[p].inventory]_vars

\* a buy was refused for a full pack, after the debit and the credit had
\* been made and taken back, while a second player stood by
C31_Witness ==
    /\ last.step = "Talk" /\ last.res = "packFull"
    /\ ErrorEvents(sent) = {1}
    /\ Cardinality(DOMAIN players) = 2
    /\ npcs["npc-vendor-chet"].creds = InventorySlots * BROKEN_LEDGER.cost


----------------------------------------------------------------------------
(* Properties of a purchase, checked under SpecTrade *)

Vendor == "npc-vendor-chet"

\* the stock entries of the vendor whose name the buyer was sold
SoldAs(ns, name) ==
    {i \in 1..Len(ns[Vendor].vendorStock) : ns[Vendor].vendorStock[i].name = name}

\* the empty item slots of an inventory
EmptySlots(inv) == {i \in 1..Len(inv.items) : inv.items[i] = Null}

\* C32: a successful buy takes the item's cost from the buyer's creds and
\* adds it to the vendor's (the sum of the two is unchanged), and writes the
\* item's stock name into the lowest empty item slot of the buyer; no other
\* slot, nor the weapon slot, the armor slot or the vendor's stock changes.
C32_BuyMovesCredsAndFillsLowestSlot ==
    [][(last'.step = "Talk" /\ last'.res = "bought") =>
          \E p \in {last'.pid}, i \in SoldAs(npcs, last'.arg) :
             LET item == npcs[Vendor].vendorStock[i]
                 inv == players[p].inventory
                 inv1 == players'[p].inventory
             IN /\ players'[p].creds = players[p].creds - item.cost
                /\ players'[p].creds >= 0
                /\ npcs'[Vendor].creds = npcs[Vendor].creds + item.cost
                /\ players'[p].creds + npcs'[Vendor].creds
                      = players[p].creds + npcs[Vendor].creds
                /\ EmptySlots(inv) # {}
                /\ \A k \in 1..Len(inv.items) :
                      inv1.items[k] =
                         IF k \in EmptySlots(inv) /\ \A j \in EmptySlots(inv) : k <= j
                         THEN item.name ELSE inv.items[k]
                /\ Len(inv1.items) = Len(inv.items)
                /\ inv1.weapon = inv.weapon
                /\ inv1.armor = inv.armor
                /\ npcs'[Vendor].vendorStock = npcs[Vendor].vendorStock]_vars

\* after a buy asked for in lower case, with a weapon bought earlier in
\* hand, the lowest slots hold the name as the stock spells it and the slot
\* above them is still empty
C32_Witness ==
    /\ last.step = "Talk" /\ last.res = "bought" /\ last.pid \in DOMAIN players
    /\ \E k \in 1..(InventorySlots - 2) :
          LET items == players[last.pid].inventory.items
          IN /\ \A j \in 1..(k + 1) : items[j] = "Broken Ledger"
             /\ items[k + 2] = Null
    /\ players[last.pid].inventory.weapon = "Broken Ledger"
    /\ npcs[Vendor].creds > 0


----------------------------------------------------------------------------
(* Properties of the room a move starts from, checked under SpecWorld *)

\* the rooms the exits of room R lead to
ExitTargets(rs, R) == {rs[R].exits[i].targetRoomId : i \in 1..Len(rs[R].exits)}

\* C33: whenever a move relocates a player, the destination is the target
\* of an exit of the room the player was bound to immediately before the
\* relocation, also when the player has several moves in flight that were
\* issued from the same room.
C33_MoveFollowsAnExit ==
    [][(last'.res = "moved" /\ last'.pid \in DOMAIN players) =>
          players'[last'.pid].roomId \in ExitTargets(rooms', players[last'.pid].roomId)]_vars


----------------------------------------------------------------------------
(* Properties of moves that outlive their session, checked under SpecSession *)

\* the sessions whose disconnection has been processed
Departed == AdmittedIds \ DOMAIN players

\* the departure and arrival notices of a move among the events that name
\* the player
MoveNotices(events, pid) ==
    {i \in 1..Len(events) : events[i].msg \in {"leaves", "arrives"} /\ events[i].arg = pid}

\* C34: once a session's disconnection has been processed, no later step
\* acts on its behalf: a move of that session that was suspended on a
\* generator inserts no room, sets no exit target, spawns no NPC, and
\* broadcasts no departure or arrival notice naming that player.
C34_NothingActsForADepartedSession ==
    [][\A p \in Departed :
          (last'.pid = p /\ last'.step \in {"GenReturn", "ProfileReturn"}) =>
             /\ rooms' = rooms
             /\ npcs' = npcs
             /\ MoveNotices(sent', p) = {}]_vars


----------------------------------------------------------------------------
(* Properties of loot, checked under SpecBrawl *)

\* the normies a step removes from the directory
Removed == DOMAIN npcs \ DOMAIN npcs'

\* the normies that have appeared and are gone
Fallen == {NpcId(n) : n \in 1..nextNpc} \ DOMAIN npcs

\* the normies of a room that answer to a name, in the directory ns
Namesakes(ns, roomId, name) ==
    {id \in DOMAIN ns : /\ ns[id].npcClass = "normie" /\ ns[id].roomId = roomId
                        /\ Lower(ns[id].name) = Lower(name)}

\* a step removes a Normie only by the attack that defeats it, and credits
\* its creds to the attacker alone
LootedByTheOneWhoDefeats ==
    /\ \A id \in Removed :
          /\ Removed = {id}
          /\ last'.step = "Attack" /\ last'.res = "defeated" /\ last'.arg = id
          /\ players'[last'.pid].creds = players[last'.pid].creds + npcs[id].creds
    /\ (last'.step = "Attack" /\ last'.res = "defeated") => Removed = {last'.arg}
    /\ (last'.step = "Attack" /\ Removed = {}) =>
          \A q \in DOMAIN players : players'[q].creds = players[q].creds
    /\ last'.step = "Attack" =>
          \A q \in DOMAIN players \ {last'.pid} : players'[q] = players[q]
    /\ Fallen \subseteq Fallen'

\* C35 as stated: each Normie is removed and looted by exactly one attack,
\* and once it is removed an attack naming it finds no target.
C35_LootedOnceThenNoTarget ==
    [][/\ LootedByTheOneWhoDefeats
       /\ \A id \in Removed :
             Namesakes(npcs', npcs[id].roomId, npcs[id].name) = {}]_vars

\* C35 amended: each Normie is removed by exactly one attack, which credits
\* its creds to that attacker and to nobody else, and it never returns; an
\* attack on a name that no Normie of the room bears any more is answered
\* with an error and changes no creds and no health. While another Normie of
\* that name stands in the room, the attack strikes that one.
C35_LootedOnceByOnePlayer ==
    [][/\ LootedByTheOneWhoDefeats
       /\ \A q \in DOMAIN players, name \in BrawlTargets :
             (/\ last'.step = "Attack" /\ last'.pid = q /\ Fallen # {}
              /\ last'.res \in {"noNormie", "defeated", "retaliated"}) =>
                IF Namesakes(npcs, players[q].roomId, name) = {}
                THEN /\ last'.res = "noNormie"
                     /\ ErrorEvents(sent') = {1}
                     /\ players' = players
                     /\ npcs' = npcs
                ELSE /\ last'.res \in {"defeated", "retaliated"}
                     /\ last'.arg \in Namesakes(npcs, players[q].roomId, name)]_vars

\* a player attacked the name of a Normie that another player had defeated
\* and looted, and found no target
C35_Witness ==
    /\ last.step = "Attack" /\ last.res = "noNormie"
    /\ Fallen # {}
    /\ \E p \in DOMAIN players \ {last.pid} :
          /\ players[p].creds > 0
          /\ players[p].roomId = players[last.pid].roomId
    /\ players[last.pid].creds = 0


----------------------------------------------------------------------------
(* Properties of the attack rating, checked under SpecArms *)

\* the catalog entries of category weapon, by the name in the weapon slot
WeaponRating(weapon) ==
    IF Lower(weapon) \in DOMAIN ITEM_DEFINITIONS /\ ITEM_DEFINITIONS[Lower(weapon)].type = "weapon"
    THEN ITEM_DEFINITIONS[Lower(weapon)].attackRating ELSE NoValue

\* C36: in every reachable state a player's attack rating is determined by
\* the weapon slot: 10 when the slot holds "fist", and the catalog attack
\* rating of the weapon in the slot otherwise (20 for the Broken Ledger).
C36_AttackRatingFollowsWeapon ==
    \A p \in DOMAIN players :
        LET weapon == players[p].inventory.weapon
        IN /\ players[p].attackRating =
                 IF weapon = "fist" THEN 10 ELSE WeaponRating(weapon)
           /\ weapon = "Broken Ledger" => players[p].attackRating = 20
           /\ weapon # "fist" => WeaponRating(weapon) # NoValue

\* a player who had fought with the weapon put it away and struck a Normie
\* with the fist: the blow took 10, the blows before took 20
C36_Witness ==
    /\ last.step = "Attack" /\ last.res = "retaliated" /\ last.pid \in DOMAIN players
    /\ players[last.pid].inventory.weapon = "fist"
    /\ players[last.pid].attackRating = 10
    /\ \E i \in 1..Len(players[last.pid].inventory.items) :
          players[last.pid].inventory.items[i] = BROKEN_LEDGER.name
    /\ npcs[last.arg].health = NORMIE_MAX_HEALTH - 20 - 10


----------------------------------------------------------------------------
(* Properties of the balances, checked under SpecPurse *)

\* C37: in every reachable state the creds of every player and of every
\* NPC are at least 0, whatever buys (refused ones and the one taken back
\* for a full pack included), attacks with loot and top-ups came before.
C37_CredsNeverNegative ==
    /\ \A p \in DOMAIN players : players[p].creds >= 0
    /\ \A id \in DOMAIN npcs : npcs[id].creds >= 0

\* a buy was taken back for a full pack after a top-up, a loot and twenty
\* purchases, and the balances are those before the buy
C37_Witness ==
    /\ last.step = "Talk" /\ last.res = "packFull" /\ last.pid \in DOMAIN players
    /\ topups = PurseTopups
    /\ Fallen # {}
    /\ players[last.pid].creds + npcs[Vendor].creds = TOPUP_CREDITS + 5
    /\ npcs[Vendor].creds >= InventorySlots * MONSTER.cost


----------------------------------------------------------------------------
(* Properties of the room bindings, checked under SpecAtlas *)

\* every player of the table and every NPC of the directory is in a room
\* of the room table
BoundToRooms ==
    /\ \A p \in DOMAIN players : players[p].roomId \in DOMAIN rooms
    /\ \A id \in DOMAIN npcs : npcs[id].roomId \in DOMAIN rooms

\* an NPC that is in the directory before and after a step is in the same room
NpcsStay == \A id \in DOMAIN npcs \cap DOMAIN npcs' : npcs'[id].roomId = npcs[id].roomId

\* C38: in every reachable state the room id of every player in the player
\* table and of every NPC in the NPC directory is the id of a room in the
\* room table, and an NPC never changes room after it was spawned.
C38_BoundToExistingRooms == [][BoundToRooms /\ BoundToRooms' /\ NpcsStay]_vars

\* a player stands with a Normie in a generated room and was refused the
\* exit of that room that names a room that does not exist
C38_Witness ==
    /\ last.res = "glitch" /\ last.pid \in DOMAIN players
    /\ players[last.pid].roomId \notin {"hub-1", "vault-1"}
    /\ \E i \in 1..Len(rooms[players[last.pid].roomId].exits) :
          rooms[players[last.pid].roomId].exits[i].targetRoomId = "room-ghost"
    /\ "room-ghost" \notin DOMAIN rooms
    /\ \E id \in DOMAIN npcs :
          npcs[id].npcClass = "normie" /\ npcs[id].roomId = players[last.pid].roomId

====
